---------------------------- MODULE Spec2Model ----------------------------
(***************************************************************************)
(* Kiln controller (controller-forno): the ProgramRunner control loop, the *)
(* sensor/safety loop of app.py, the SafetyMonitor flag, the Watchdog and  *)
(* the valve actuator they all command.                                    *)
(*                                                                         *)
(* Temperatures are integers in half degrees (Deg(20) is 20 C), so that    *)
(* the setpoint steps of the ramps used here (rate*30/3600 C per cycle)    *)
(* are exact.  The runner's moving average is floored to that resolution.  *)
(* Valve apertures are integer percents.                                   *)
(*                                                                         *)
(* PIDController.compute depends on wall-clock time and on its own memory; *)
(* here its result is any value of PidOutputs, a subset of the range       *)
(* [0,100] to which compute clamps its output.                             *)
(*                                                                         *)
(* The control loop thread of ProgramRunner is followed through the points *)
(* at which it blocks: the loop test, the notification sent by             *)
(* _advance_to_next_ramp (an HTTP request), the actuator command and the   *)
(* inter-cycle wait.  start() creates a new thread each time, so up to     *)
(* MaxThreads loop threads may be alive at once.                           *)
(*                                                                         *)
(* The sensor loop's autotuning branch (app.py 151-176) is taken with      *)
(* autotuner.is_running = False, its value from construction.              *)
(***************************************************************************)
EXTENDS Integers, Sequences, FiniteSets, TLC

(* ------------------------------ bounds -------------------------------- *)
\* loop threads of the runner that may be alive at the same time
MaxThreads == 1
\* changes of the physical temperature / sensor reading in one behaviour
MaxTempChanges == 2
\* watchdog triggers in one behaviour
MaxTriggers == 2
\* _run_loop threads of the runner that are followed when only their
\* start and their end are of interest
MaxLoops == 3
\* _watchdog_loop threads that may be alive at the same time
MaxWdThreads == 1
\* request threads inside the learner at once
MaxLearnThreads == 2
\* the logs analyze_all_logs finds, at most
MaxLogs == 6
\* analyses the learner is given in one behaviour
MaxProcessCalls == 1
\* calls of the methods that write program_state in one behaviour
MaxUpdates == 3
\* the clock of the watchdog's notifications stops here
MaxClock == 240
\* ages of the heartbeat and of the last valid reading saturate here
MaxAge == 45
\* seconds by which the clock advances between two observations
TimeStep == 15

(* --------------------------- configuration ---------------------------- *)
Deg(c) == 2 * c

PID_CYCLE_INTERVAL == 30
TEMP_SMOOTHING_WINDOW == 5
RAMP_TOLERANCE == Deg(10)
HOLD_TOLERANCE == Deg(15)
VALVE_MAX_STEP_PER_CYCLE == 50
OVER_TEMP == Deg(1310)
WATCHDOG_INTERVAL == 5
WATCHDOG_SENSOR_TIMEOUT == 30
WATCHDOG_THREAD_TIMEOUT == 15

\* a missing reading (Python's None)
None == Deg(0) - 1

\* results of PIDController.compute: clamped to [0,100]
PidOutputs == {0, 100}

\* readings of the thermocouple
Temps == {Deg(20), Deg(55), Deg(80)}

\* firing programs: [target C, rate C/h, hold minutes]
Seg(t, r, h) == [target |-> Deg(t), rate |-> r, hold |-> h]
Programs == { << Seg(200, 300, 0) >>,
              << Seg(60, 1200, 1), Seg(20, 600, 0) >> }

Threads == 1 .. MaxThreads

Abs(x) == IF x < 0 THEN 0 - x ELSE x
Min(a, b) == IF a < b THEN a ELSE b
Max(a, b) == IF a > b THEN a ELSE b

RECURSIVE SumSeq(_)
SumSeq(s) == IF s = << >> THEN 0 ELSE Head(s) + SumSeq(Tail(s))

\* sum(buffer) / len(buffer), floored to the model's resolution
Mean(buf) == SumSeq(buf) \div Len(buf)

\* deque(maxlen=TEMP_SMOOTHING_WINDOW).append
Push(buf, x) ==
    IF Len(buf) >= TEMP_SMOOTHING_WINDOW THEN Append(Tail(buf), x)
    ELSE Append(buf, x)

VARIABLES
    runner,            \* the ProgramRunner object's fields
    threads,           \* the runner's loop threads: position and locals
    valve_pos,         \* StepperValveController position, percent
    program_state,     \* the dict shared with the request layer
    is_logging,        \* DataLogger.is_logging
    temperature_data,  \* the sensor loop's published reading
    temp_changes,      \* how often the reading / the kiln has changed
    monitor,           \* temperature_monitor_thread: where it stands
    env,               \* the kiln: hot temperature, sensor answering
    safety,            \* the SafetyMonitor object's fields
    watchdog,          \* the Watchdog object's fields
    heartbeat_age,     \* now - _last_heartbeat, seconds
    sensor_age,        \* now - _last_valid_sensor_time, seconds
    bands,             \* AdaptivePIDTable.bands: base and current gains
    applied,           \* what update_band returned last
    valve_lock,        \* StepperValveController.lock: the call holding it
    set_call,          \* a set_position call of a control loop
    wd_threads,        \* the _watchdog_loop threads: position, last error
    safety_monitor,    \* a SafetyMonitor with its alarms and history
    safety_call,       \* the monitor's last call and what it returned
    pid,               \* a PIDController's fields
    pid_call,          \* the controller's last call and its time step
    autotuner,         \* the RelayAutotuner object's fields
    autotune_loop,     \* the sensor loop in its autotuning branch
    learner,           \* the PIDLearner object's fields
    learn_call,        \* the learner's last call and what it returned
    learn_threads,     \* request threads inside the learner's methods
    snapshot,          \* program_state's writers and a reader of it
    trigger_call,      \* one _trigger_emergency call, step by step
    adaptive_manager,  \* the AdaptivePIDManager object's fields
    manager_call,      \* the manager's last call and its argument
    run_loops          \* the runner's stop event and its _run_loop threads

\* the objects the kiln's loops use through their methods only
valvevars == << valve_lock, set_call, wd_threads >>

monitorvars == << safety_monitor, safety_call >>

\* the objects that are followed on their own
pidvars == << pid, pid_call >>

tunervars == << autotuner, autotune_loop >>

learnervars == << learner, learn_call, learn_threads >>

\* what is followed statement by statement
tracevars == << snapshot, trigger_call >>

managervars == << adaptive_manager, manager_call, run_loops >>

restvars ==
    << monitorvars, pidvars, tunervars, learnervars, tracevars,
       managervars >>

libvars == << bands, applied, valvevars, restvars >>

\* what the runner's own operations never touch
sysvars == << monitor, env, safety, watchdog, heartbeat_age, sensor_age,
             libvars >>

vars == << runner, threads, valve_pos, program_state, is_logging,
           temperature_data, temp_changes, sysvars >>

(* ------------------------------ actuator ------------------------------ *)
\* StepperValveController.set_position: clamps to 0..100 and moves there
set_position(percentage) == Max(0, Min(100, percentage))

(* --------------------------- ProgramRunner ---------------------------- *)
\* The runner's methods act on a context c: the runner (c.r), the valve
\* (c.valve), program_state (c.ps), the logger (c.log), the reading they
\* see (c.td), and c.adv: _advance_to_next_ramp has been entered.

Ctx == [r |-> runner, valve |-> valve_pos, ps |-> program_state,
        log |-> is_logging, td |-> temperature_data, adv |-> FALSE]

NoThread == [pc |-> "none", current_temp |-> None, valve_output |-> 0]

get_smoothed_temp(c) ==
    LET current == c.td.hot
        buf == c.r.temp_buffer
    IN  IF current <= 0 /\ c.td.status # "connected"
        THEN [c |-> c, val |-> IF Len(buf) > 0 THEN Mean(buf) ELSE None]
        ELSE LET nb == Push(buf, current)
             IN  [c |-> [c EXCEPT !.r.temp_buffer = nb], val |-> Mean(nb)]

reset_program_state(c) ==
    [c EXCEPT !.ps = [running |-> FALSE, phase |-> "idle", current_ramp |-> 0,
                      current_setpoint |-> Deg(20), valve_output |-> 0]]

update_program_state(c) ==
    LET r == c.r
        has == r.current_ramp_index < Len(r.ramps)
        target == IF has THEN r.ramps[r.current_ramp_index + 1].target ELSE 0
        rate == IF has THEN r.ramps[r.current_ramp_index + 1].rate ELSE 0
        \* the two estimates of the ramp phase each read the temperature
        c1 == IF r.phase = "ramp" /\ Abs(target - r.ramp_start_temp) > 0
              THEN get_smoothed_temp(c).c ELSE c
        c2 == IF r.phase = "ramp" /\ rate > 0
              THEN get_smoothed_temp(c1).c ELSE c1
    IN  [c2 EXCEPT !.ps = [running |-> r.is_running, phase |-> r.phase,
                           current_ramp |-> r.current_ramp_index + 1,
                           current_setpoint |-> r.current_setpoint,
                           valve_output |-> r.last_valve_output]]

start_ramp(c, index) ==
    IF index >= Len(c.r.ramps) THEN c
    ELSE LET g == get_smoothed_temp(c)
             current_temp == IF g.val = None THEN c.r.current_setpoint
                             ELSE g.val
         IN  [g.c EXCEPT !.r.current_ramp_index = index,
                         !.r.phase = "ramp",
                         !.r.ramp_start_temp = current_temp,
                         !.r.current_setpoint = current_temp]

complete_program(c) ==
    reset_program_state(
        [c EXCEPT !.r.phase = "complete",
                  !.r.is_running = FALSE,
                  !.r.stop_event = TRUE,
                  !.valve = set_position(0),
                  !.r.last_valve_output = 0,
                  !.log = FALSE])

\* _advance_to_next_ramp up to its notification, which blocks
advance_to_next_ramp(c) == [c EXCEPT !.adv = TRUE]

\* _advance_to_next_ramp after its notification
advance_after_notify(c) ==
    LET next_index == c.r.current_ramp_index + 1
    IN  IF next_index < Len(c.r.ramps) THEN start_ramp(c, next_index)
        ELSE complete_program(c)

start_hold(c) ==
    LET ramp == c.r.ramps[c.r.current_ramp_index + 1]
    IN  IF ramp.hold <= 0 THEN advance_to_next_ramp(c)
        ELSE [c EXCEPT !.r.phase = "hold",
                       !.r.hold_total = ramp.hold * 60,
                       !.r.hold_remaining = ramp.hold * 60]

\* a setpoint step taken per minute instead of per hour
ramp_delta_per_minute(rate) == Deg(rate * PID_CYCLE_INTERVAL) \div 60

\* the setpoint step of one cycle: rate/3600 * PID_CYCLE_INTERVAL
ramp_delta(rate) == Deg(rate * PID_CYCLE_INTERVAL) \div 3600

\* a ramp that ends when the setpoint, not the measure, reaches the target
process_ramp_on_setpoint(c, current_temp, target, rate) ==
    LET delta == ramp_delta(rate)
        is_heating == target > c.r.ramp_start_temp
        c1 == [c EXCEPT !.r.current_setpoint =
                 IF is_heating THEN Min(c.r.current_setpoint + delta, target)
                 ELSE Max(c.r.current_setpoint - delta, target)]
    IN  IF c1.r.current_setpoint = target THEN start_hold(c1) ELSE c1

process_ramp(c, current_temp, target, rate) ==
    LET delta == ramp_delta(rate)
        is_heating == target > c.r.ramp_start_temp
    IN  IF is_heating
        THEN LET c1 == [c EXCEPT !.r.current_setpoint =
                                   Min(c.r.current_setpoint + delta, target)]
             IN  IF current_temp >= target - RAMP_TOLERANCE
                 THEN start_hold(c1) ELSE c1
        ELSE LET c1 == [c EXCEPT !.r.current_setpoint =
                                   Max(c.r.current_setpoint - delta, target)]
             IN  IF current_temp <= target + RAMP_TOLERANCE
                 THEN start_hold(c1) ELSE c1

\* a hold whose timer runs whatever the temperature
process_hold_untimed(c, current_temp, target) ==
    LET c1 == [c EXCEPT !.r.current_setpoint = target]
        left == c1.r.hold_remaining - PID_CYCLE_INTERVAL
    IN  IF left <= 0
        THEN advance_to_next_ramp([c1 EXCEPT !.r.hold_remaining = 0])
        ELSE [c1 EXCEPT !.r.hold_remaining = left]

process_hold(c, current_temp, target) ==
    LET c1 == [c EXCEPT !.r.current_setpoint = target]
    IN  IF Abs(current_temp - target) <= HOLD_TOLERANCE
        THEN LET left == c1.r.hold_remaining - PID_CYCLE_INTERVAL
             IN  IF left <= 0
                 THEN advance_to_next_ramp(
                          [c1 EXCEPT !.r.hold_remaining = 0])
                 ELSE [c1 EXCEPT !.r.hold_remaining = left]
        ELSE c1

\* a limiter that lets the PID output through
rate_limit_off(pid_raw_output, last_valve_output) == pid_raw_output

\* _cycle, step 4: the rate limiter
rate_limit(pid_raw_output, last_valve_output) ==
    LET delta == pid_raw_output - last_valve_output
    IN  IF Abs(delta) > VALVE_MAX_STEP_PER_CYCLE
        THEN Max(0, Min(100,
                 IF delta > 0
                 THEN last_valve_output + VALVE_MAX_STEP_PER_CYCLE
                 ELSE last_valve_output - VALVE_MAX_STEP_PER_CYCLE))
        ELSE pid_raw_output

\* the effect of a method on the variables it may touch
Commit(c) ==
    /\ runner' = c.r
    /\ valve_pos' = c.valve
    /\ program_state' = c.ps
    /\ is_logging' = c.log

FreeThread == CHOOSE t \in Threads :
                 /\ threads[t].pc = "none"
                 /\ \A u \in Threads : threads[u].pc = "none" => t <= u

Start(ramps) ==
    /\ ~ runner.is_running
    /\ ramps # << >>
    /\ \E t \in Threads : threads[t].pc = "none"
    /\ LET c0 == [Ctx EXCEPT !.r.ramps = ramps,
                             !.r.current_ramp_index = 0,
                             !.r.temp_buffer = << >>]
           c1 == update_program_state(start_ramp(c0, 0))
       IN  Commit([c1 EXCEPT !.r.stop_event = FALSE,
                             !.r.is_running = TRUE,
                             !.log = TRUE])
    /\ threads' = [threads EXCEPT ![FreeThread] =
                      [NoThread EXCEPT !.pc = "check"]]
    /\ UNCHANGED << temperature_data, temp_changes, sysvars >>

Stop ==
    /\ runner.is_running
    /\ Commit(reset_program_state(
           [Ctx EXCEPT !.r.stop_event = TRUE,
                       !.r.is_running = FALSE,
                       !.r.phase = "stopped",
                       !.valve = set_position(0),
                       !.r.last_valve_output = 0,
                       !.log = FALSE]))
    /\ UNCHANGED << threads, temperature_data, temp_changes, sysvars >>

EmergencyStop ==
    /\ Commit(reset_program_state(
           [Ctx EXCEPT !.r.stop_event = TRUE,
                       !.r.is_running = FALSE,
                       !.r.phase = "stopped",
                       !.r.last_valve_output = 0,
                       !.log = FALSE]))
    /\ UNCHANGED << threads, temperature_data, temp_changes, sysvars >>

\* _run_loop: the loop test on entry
RunLoopCheck(t) ==
    /\ threads[t].pc = "check"
    /\ threads' = [threads EXCEPT ![t] =
                      IF runner.stop_event THEN NoThread
                      ELSE [NoThread EXCEPT !.pc = "cycle"]]
    /\ UNCHANGED << runner, valve_pos, program_state, is_logging,
                    temperature_data, temp_changes, sysvars >>

\* _cycle, steps 3 and 4, in thread t
ComputeValve(t, c, current_temp, pid_raw_output) ==
    /\ Commit(c)
    /\ threads' = [threads EXCEPT ![t] =
          [pc |-> "command", current_temp |-> current_temp,
           valve_output |-> rate_limit(pid_raw_output,
                                       c.r.last_valve_output)]]

\* _cycle, steps 1 and 2
CycleProcess(t) ==
    /\ threads[t].pc = "cycle"
    /\ LET g == get_smoothed_temp(Ctx)
           current_temp == g.val
       IN  IF current_temp = None
           THEN /\ threads' = [threads EXCEPT ![t] =
                                  [NoThread EXCEPT !.pc = "wait"]]
                /\ UNCHANGED << runner, valve_pos, program_state, is_logging >>
           ELSE LET c1 == [g.c EXCEPT !.r.temp_buffer =
                                        Push(g.c.r.temp_buffer, current_temp)]
                    ramp == c1.r.ramps[c1.r.current_ramp_index + 1]
                    c2 == CASE c1.r.phase = "ramp" ->
                                 process_ramp(c1, current_temp, ramp.target,
                                              ramp.rate)
                            [] c1.r.phase = "hold" ->
                                 process_hold(c1, current_temp, ramp.target)
                            [] OTHER -> c1
                IN  IF c2.adv
                    THEN /\ Commit(c2)
                         /\ threads' = [threads EXCEPT ![t] =
                               [pc |-> "advance",
                                current_temp |-> current_temp,
                                valve_output |-> 0]]
                    ELSE \E out \in PidOutputs :
                             ComputeValve(t, c2, current_temp, out)
    /\ UNCHANGED << temperature_data, temp_changes, sysvars >>

\* _advance_to_next_ramp once its notification has returned, then the rest
\* of the cycle up to the actuator command
CycleAdvance(t) ==
    /\ threads[t].pc = "advance"
    /\ \E out \in PidOutputs :
           ComputeValve(t, advance_after_notify(Ctx),
                        threads[t].current_temp, out)
    /\ UNCHANGED << temperature_data, temp_changes, sysvars >>

\* _cycle, steps 5 and 6
CycleCommand(t) ==
    /\ threads[t].pc = "command"
    /\ LET v == threads[t].valve_output
       IN  Commit(update_program_state(
               [Ctx EXCEPT !.valve = set_position(v),
                           !.r.last_valve_output = v]))
    /\ threads' = [threads EXCEPT ![t] = [NoThread EXCEPT !.pc = "wait"]]
    /\ UNCHANGED << temperature_data, temp_changes, sysvars >>

\* _run_loop: self._stop_event.wait(timeout=PID_CYCLE_INTERVAL) returns
\* and the loop test follows
RunLoopWait(t) ==
    /\ threads[t].pc = "wait"
    /\ threads' = [threads EXCEPT ![t] =
                      IF runner.stop_event THEN NoThread
                      ELSE [NoThread EXCEPT !.pc = "cycle"]]
    /\ UNCHANGED << runner, valve_pos, program_state, is_logging,
                    temperature_data, temp_changes, sysvars >>

(* ------------------- the reading the runner is given ------------------ *)
\* the sensor loop publishes a valid reading
PublishReading(hot) ==
    /\ temp_changes < MaxTempChanges
    /\ temperature_data' = [hot |-> hot, status |-> "connected"]
    /\ temp_changes' = temp_changes + 1
    /\ UNCHANGED << runner, threads, valve_pos, program_state, is_logging,
                    sysvars >>

\* the sensor loop marks the reading as failed
PublishError ==
    /\ temp_changes < MaxTempChanges
    /\ temperature_data.status # "error"
    /\ temperature_data' = [temperature_data EXCEPT !.status = "error"]
    /\ temp_changes' = temp_changes + 1
    /\ UNCHANGED << runner, threads, valve_pos, program_state, is_logging,
                    sysvars >>

(* -------------------------------- kiln -------------------------------- *)
\* hot-junction temperatures of the kiln
KilnTemps == {Deg(20), Deg(1315)}

\* programs started while the whole system runs
KilnPrograms == { << Seg(60, 1200, 0) >> }

\* the kiln heats or cools, or the thermocouple stops or resumes answering
EnvChange ==
    /\ temp_changes < MaxTempChanges
    /\ \E h \in KilnTemps, ok \in BOOLEAN :
          /\ [hot |-> h, ok |-> ok] # env
          /\ env' = [hot |-> h, ok |-> ok]
    /\ temp_changes' = temp_changes + 1
    /\ UNCHANGED << runner, threads, valve_pos, program_state, is_logging,
                    temperature_data, monitor, safety, watchdog,
                    heartbeat_age, sensor_age,
                    libvars >>

\* StepperValveController.emergency_close: steps back to position 0
emergency_close(pos) == 0

(* --------------------------- SafetyMonitor ---------------------------- *)
check_sensor_health(s, sensor_status) ==
    IF sensor_status # "connected"
    THEN [s EXCEPT !.emergency_stop_triggered = TRUE] ELSE s

\* check 1 of check_all; the other checks only raise warnings
check_all(s, temp_hot) ==
    IF temp_hot > OVER_TEMP
    THEN [s EXCEPT !.emergency_stop_triggered = TRUE] ELSE s

reset_emergency(s) == [s EXCEPT !.emergency_stop_triggered = FALSE]

(* ------------------------------ Watchdog ------------------------------ *)
report_sensor_ok(w, temperature) ==
    [w EXCEPT !.last_temperature = temperature]

\* the checks of _watchdog_loop with the limits themselves counted as late
watchdog_check_at_limit(w, hb_age, s_age) ==
    IF hb_age >= WATCHDOG_THREAD_TIMEOUT THEN "heartbeat"
    ELSE IF s_age >= WATCHDOG_SENSOR_TIMEOUT THEN "sensor"
    ELSE IF w.last_temperature >= OVER_TEMP THEN "over_temp"
    ELSE "ok"

\* the three checks of _watchdog_loop, in their order
watchdog_check(w, hb_age, s_age) ==
    IF hb_age > WATCHDOG_THREAD_TIMEOUT THEN "heartbeat"
    ELSE IF s_age > WATCHDOG_SENSOR_TIMEOUT THEN "sensor"
    ELSE IF w.last_temperature > OVER_TEMP THEN "over_temp"
    ELSE "ok"

\* _trigger_emergency: the fields of the watchdog
trigger_emergency(w, reason) ==
    [w EXCEPT !.triggered = TRUE, !.trigger_reason = reason,
              !.trigger_count = w.trigger_count + 1]

\* Watchdog.start: the fields of the watchdog
watchdog_start(w) == [w EXCEPT !.is_running = TRUE, !.triggered = FALSE]

\* Watchdog.reset: the fields of the watchdog
watchdog_reset(w) == [w EXCEPT !.triggered = FALSE, !.trigger_reason = "none"]

\* a further trigger would pass the bound on trigger_count
MayRearm == watchdog.triggered => watchdog.trigger_count < MaxTriggers

WdStart ==
    /\ ~ watchdog.is_running
    /\ MayRearm
    /\ watchdog' = watchdog_start(watchdog)
    /\ heartbeat_age' = 0
    /\ sensor_age' = 0
    /\ UNCHANGED << runner, threads, valve_pos, program_state, is_logging,
                    temperature_data, temp_changes, monitor, env, safety,
                    libvars >>

WdStop ==
    /\ watchdog.is_running
    /\ watchdog' = [watchdog EXCEPT !.is_running = FALSE]
    /\ UNCHANGED << runner, threads, valve_pos, program_state, is_logging,
                    temperature_data, temp_changes, monitor, env, safety,
                    heartbeat_age, sensor_age,
                    libvars >>

\* one pass of _watchdog_loop
WatchdogPoll ==
    /\ watchdog.is_running
    /\ ~ watchdog.triggered
    /\ LET reason == watchdog_check(watchdog, heartbeat_age, sensor_age)
       IN  /\ reason # "ok"
           /\ watchdog' = trigger_emergency(watchdog, reason)
           /\ valve_pos' = emergency_close(valve_pos)
    /\ UNCHANGED << runner, threads, program_state, is_logging,
                    temperature_data, temp_changes, monitor, env, safety,
                    heartbeat_age, sensor_age,
                    libvars >>

\* TimeStep seconds pass
Tick ==
    /\ heartbeat_age < MaxAge \/ sensor_age < MaxAge
    /\ heartbeat_age' = Min(MaxAge, heartbeat_age + TimeStep)
    /\ sensor_age' = Min(MaxAge, sensor_age + TimeStep)
    /\ UNCHANGED << runner, threads, valve_pos, program_state, is_logging,
                    temperature_data, temp_changes, monitor, env, safety,
                    watchdog,
                    libvars >>

(* ------------------ app.py: sensor loop and handlers ------------------ *)
\* main starts temperature_monitor_thread
MonitorStart ==
    /\ monitor = "off"
    /\ monitor' = "running"
    /\ UNCHANGED << runner, threads, valve_pos, program_state, is_logging,
                    temperature_data, temp_changes, env, safety, watchdog,
                    heartbeat_age, sensor_age,
                    libvars >>

\* the PID branch of temperature_monitor_thread (app.py 178-204) from
\* valve position v; it yields the valve position and whether the thread
\* survives.  logger.log_temperature has no parameter pid_data: the call
\* raises TypeError, which nothing catches, and the thread ends.
pid_branch(v, out) ==
    IF program_state.running
    THEN [valve |-> set_position(out), alive |-> ~ is_logging]
    ELSE [valve |-> v, alive |-> TRUE]

\* temperature_monitor_thread, one iteration
SensorLoop ==
    /\ monitor = "running"
    /\ heartbeat_age' = 0
    /\ LET td == IF env.ok THEN [hot |-> env.hot, status |-> "connected"]
                 ELSE [temperature_data EXCEPT !.status = "error"]
           s1 == IF env.ok THEN safety
                 ELSE check_sensor_health(safety, "error")
           s2 == check_all(s1, td.hot)
           v == IF s2.emergency_stop_triggered
                THEN emergency_close(valve_pos) ELSE valve_pos
       IN  /\ temperature_data' = td
           /\ safety' = s2
           /\ watchdog' = IF env.ok THEN report_sensor_ok(watchdog, env.hot)
                          ELSE watchdog
           /\ sensor_age' = IF env.ok THEN 0 ELSE sensor_age
           /\ \E out \in PidOutputs :
                 /\ valve_pos' = pid_branch(v, out).valve
                 /\ monitor' = IF pid_branch(v, out).alive
                               THEN "running" ELSE "dead"
    /\ UNCHANGED << runner, threads, program_state, is_logging,
                    temp_changes, env,
                    libvars >>

\* POST /api/safety/reset
reset_safety ==
    /\ safety.emergency_stop_triggered
    /\ safety' = reset_emergency(safety)
    /\ UNCHANGED << runner, threads, valve_pos, program_state, is_logging,
                    temperature_data, temp_changes, monitor, env, watchdog,
                    heartbeat_age, sensor_age,
                    libvars >>

\* POST /api/watchdog/reset
reset_watchdog ==
    /\ MayRearm
    /\ watchdog' = watchdog_reset(watchdog)
    /\ heartbeat_age' = 0
    /\ sensor_age' = 0
    /\ safety' = reset_emergency(safety)
    /\ UNCHANGED << runner, threads, valve_pos, program_state, is_logging,
                    temperature_data, temp_changes, monitor, env,
                    libvars >>

(* -------------------------- AdaptivePIDTable --------------------------- *)
\* Gains are integers in units of 1/10000 (25000 is 2.5); the gains used
\* here are even, so that their halves, their +-50% bounds and the
\* interpolation at the middle of a band are exact and round(value, 6)
\* leaves them as they are.  The table's temperatures are whole degrees.
\* The history lists of the bands are left out.
TEMP_BANDS == << 0, 200, 400, 600, 800, 1000, 1200 >>

SAFETY_LIMITS ==
    [Kp |-> [min |-> 5000, max |-> 100000],
     Ki |-> [min |-> 10, max |-> 2000],
     Kd |-> [min |-> 0, max |-> 80000]]

MAX_DEVIATION_PERCENT == 50

PID_KP == 25000
PID_KI == 300
PID_KD == 18000

ParamNames == {"Kp", "Ki", "Kd"}

\* update_band's result for a band the table does not have
NoParams == [Kp |-> None, Ki |-> None, Kd |-> None]

\* the bands' lower edges, sorted(self.bands.keys())
BandKeys(b) == DOMAIN b

\* _create_default_table
create_default_table ==
    LET default_params == [Kp |-> PID_KP, Ki |-> PID_KI, Kd |-> PID_KD]
    IN  [temp \in {TEMP_BANDS[i] : i \in DOMAIN TEMP_BANDS} |->
            [base |-> default_params, current |-> default_params]]

set_base_from_autotuning(b, kp, ki, kd) ==
    LET new_base == [Kp |-> kp, Ki |-> ki, Kd |-> kd]
    IN  [temp \in DOMAIN b |->
            IF \E i \in DOMAIN TEMP_BANDS : TEMP_BANDS[i] = temp
            THEN [base |-> new_base, current |-> new_base]
            ELSE b[temp]]

\* round(value, 6) on a value of the model's grid
round6(value) == value

\* update_band: the limits applied to one proposed gain
cap(param, value, base_val) ==
    LET lim == SAFETY_LIMITS[param]
        v1 == Max(lim.min, Min(lim.max, value))
        max_val == (base_val * (100 + MAX_DEVIATION_PERCENT)) \div 100
        min_val == (base_val * (100 - MAX_DEVIATION_PERCENT)) \div 100
        v2 == IF base_val > 0 THEN Max(min_val, Min(max_val, v1)) ELSE v1
        v3 == Max(lim.min, Min(lim.max, v2))
    IN  round6(v3)

\* update_band: the table it leaves and the value it returns
update_band(b, temp_band, new_kp, new_ki, new_kd) ==
    IF temp_band \notin DOMAIN b THEN [bands |-> b, ret |-> NoParams]
    ELSE LET base_params == b[temp_band].base
             proposed == [Kp |-> new_kp, Ki |-> new_ki, Kd |-> new_kd]
             capped == [param \in ParamNames |->
                          cap(param, proposed[param], base_params[param])]
         IN  [bands |-> [b EXCEPT ![temp_band].current = capped],
              ret |-> capped]

rollback_band(b, temp_band) ==
    IF temp_band \notin DOMAIN b THEN b
    ELSE [b EXCEPT ![temp_band].current = b[temp_band].base]

RECURSIVE rollback_upto(_, _)
rollback_upto(b, n) ==
    IF n = 0 THEN b
    ELSE rollback_band(rollback_upto(b, n - 1), TEMP_BANDS[n])

rollback_all(b) == rollback_upto(b, Len(TEMP_BANDS))

\* get_params_for_temp with the gains of the bands' base
get_params_of_base(b, temperature) ==
    LET keys == BandKeys(b)
        lowest == CHOOSE k \in keys : \A j \in keys : k <= j
        highest == CHOOSE k \in keys : \A j \in keys : k >= j
    IN  IF temperature <= lowest THEN b[lowest].base
        ELSE IF temperature >= highest THEN b[highest].base
        ELSE LET lower_band == CHOOSE k \in keys :
                     /\ k <= temperature
                     /\ \A j \in keys : j <= temperature => j <= k
                 upper_band == CHOOSE k \in keys :
                     /\ k > temperature
                     /\ \A j \in keys : j > temperature => k <= j
                 band_range == upper_band - lower_band
             IN  [param \in ParamNames |->
                    b[lower_band].base[param] +
                    ((temperature - lower_band) *
                     (b[upper_band].base[param] - b[lower_band].base[param]))
                       \div band_range]

get_params_for_temp(b, temperature) ==
    LET keys == BandKeys(b)
        lowest == CHOOSE k \in keys : \A j \in keys : k <= j
        highest == CHOOSE k \in keys : \A j \in keys : k >= j
    IN  IF temperature <= lowest THEN b[lowest].current
        ELSE IF temperature >= highest THEN b[highest].current
        ELSE LET lower_band == CHOOSE k \in keys :
                     /\ k <= temperature
                     /\ \A j \in keys : j <= temperature => j <= k
                 upper_band == CHOOSE k \in keys :
                     /\ k > temperature
                     /\ \A j \in keys : j > temperature => k <= j
                 band_range == upper_band - lower_band
                 lower_params == b[lower_band].current
                 upper_params == b[upper_band].current
             IN  [param \in ParamNames |->
                    lower_params[param] +
                    ((temperature - lower_band) *
                     (upper_params[param] - lower_params[param]))
                       \div band_range]

\* the variables of the kiln's loops
kilnvars == << runner, threads, valve_pos, program_state, is_logging,
               temperature_data, temp_changes, monitor, env, safety,
               watchdog, heartbeat_age, sensor_age >>

\* results of an autotuning: the configured gains, gains above the hard
\* limits, and a derivative gain of 0
AutotuneResults ==
    { [Kp |-> 25000, Ki |-> 300, Kd |-> 0],
      [Kp |-> 300000, Ki |-> 300, Kd |-> 18000] }

\* gains proposed to update_band: far above, far below, inside the ranges
Proposals ==
    { [Kp |-> 100000, Ki |-> 10000, Kd |-> 80000],
      [Kp |-> 0, Ki |-> 0, Kd |-> 0],
      [Kp |-> 30000, Ki |-> 300, Kd |-> 200] }

\* the bands the learner proposes gains for; 100 is no band
UpdatedBands == {0, 200, 1200, 100}

\* the autotuning has completed (app.py 167-170)
SetBaseFromAutotuning ==
    /\ \E g \in AutotuneResults :
          bands' = set_base_from_autotuning(bands, g.Kp, g.Ki, g.Kd)
    /\ UNCHANGED << applied, kilnvars, valvevars, restvars >>

\* the learner applies or the operator approves a suggestion
UpdateBand ==
    /\ \E temp_band \in UpdatedBands, g \in Proposals :
          LET u == update_band(bands, temp_band, g.Kp, g.Ki, g.Kd)
          IN  /\ bands' = u.bands
              /\ applied' = [band |-> temp_band, proposed |-> g,
                             ret |-> u.ret]
    /\ UNCHANGED << kilnvars, valvevars, restvars >>

\* POST /api/adaptive/rollback with a band
RollbackBand ==
    /\ \E temp_band \in UpdatedBands :
          bands' = rollback_band(bands, temp_band)
    /\ UNCHANGED << applied, kilnvars, valvevars, restvars >>

\* POST /api/adaptive/rollback without a band
RollbackAll ==
    /\ bands' = rollback_all(bands)
    /\ UNCHANGED << applied, kilnvars, valvevars, restvars >>

(* ------------- the watchdog loop and the valve, call by call ----------- *)
\* The watchdog's loop thread is followed through the points at which it
\* can block or fail: the loop test, the checks, the lock of the valve
\* taken by emergency_close, the stepping, the notification, the sleep.
\* A set_position call of a control loop holds the same lock while the
\* motor steps.  The solenoid valve is not installed
\* (SOLENOID_VALVE_ENABLED = False), so no call is made to it.
WdThreads == 1 .. MaxWdThreads

NoWdThread == [pc |-> "none", caught |-> "none"]

\* valve apertures a control loop asks for
Percentages == {0, 50, 100}

runnervars == << runner, threads, program_state, is_logging,
                 temperature_data, temp_changes >>

tablevars == << bands, applied >>

\* where the loop goes on when nothing catches an exception raised at
\* place where: the thread ends
uncaught_at(where) == "none"

\* where the loop goes on after an exception raised at place where:
\* in the checks, caught by _watchdog_loop, which then sleeps; in
\* actuators.emergency_stop, caught by _trigger_emergency, which goes on
\* to the notification; in notifications.send, caught by
\* _trigger_emergency, which returns to the loop's `continue`
caught_at(where) ==
    CASE where = "check" -> "sleep"
      [] where = "actuator" -> "notify"
      [] where = "notify" -> "test"

\* thread t with an exception raised at place where
Raise(t, where) ==
    wd_threads' = [wd_threads EXCEPT ![t] =
                      [pc |-> caught_at(where), caught |-> where]]

\* Watchdog.start, with the thread it creates
WatchdogStart ==
    /\ ~ watchdog.is_running
    /\ MayRearm
    /\ \E t \in WdThreads :
          /\ wd_threads[t].pc = "none"
          /\ \A u \in WdThreads : wd_threads[u].pc = "none" => t <= u
          /\ wd_threads' = [wd_threads EXCEPT ![t] =
                               [pc |-> "test", caught |-> "none"]]
    /\ watchdog' = watchdog_start(watchdog)
    /\ heartbeat_age' = 0
    /\ sensor_age' = 0
    /\ UNCHANGED << runnervars, tablevars, valve_pos, monitor, env, safety,
                    valve_lock, set_call,
                    restvars >>

\* Watchdog.stop
WatchdogStop ==
    /\ watchdog.is_running
    /\ watchdog' = [watchdog EXCEPT !.is_running = FALSE]
    /\ UNCHANGED << runnervars, tablevars, valve_pos, monitor, env, safety,
                    heartbeat_age, sensor_age, valve_lock, set_call,
                    wd_threads,
                    restvars >>

\* _watchdog_loop: while self.is_running
WdLoopTest(t) ==
    /\ wd_threads[t].pc = "test"
    /\ wd_threads' = [wd_threads EXCEPT ![t] =
                         IF watchdog.is_running
                         THEN [pc |-> "poll", caught |-> "none"]
                         ELSE NoWdThread]
    /\ UNCHANGED << runnervars, tablevars, valve_pos, monitor, env, safety,
                    watchdog, heartbeat_age, sensor_age, valve_lock,
                    set_call,
                    restvars >>

\* _watchdog_loop: the latch test and the three checks; a trigger sets the
\* watchdog's fields and goes on to actuators.emergency_stop
WdLoopPoll(t) ==
    /\ wd_threads[t].pc = "poll"
    /\ \/ Raise(t, "check") /\ UNCHANGED watchdog
       \/ LET reason == watchdog_check(watchdog, heartbeat_age, sensor_age)
          IN  IF watchdog.triggered \/ reason = "ok"
              THEN /\ wd_threads' = [wd_threads EXCEPT ![t].pc = "sleep"]
                   /\ UNCHANGED watchdog
              ELSE /\ wd_threads' = [wd_threads EXCEPT ![t].pc = "close"]
                   /\ watchdog' = trigger_emergency(watchdog, reason)
    /\ UNCHANGED << runnervars, tablevars, valve_pos, monitor, env, safety,
                    heartbeat_age, sensor_age, valve_lock, set_call,
                    restvars >>

\* emergency_close: with self.lock
WdCloseAcquire(t) ==
    /\ wd_threads[t].pc = "close"
    /\ valve_lock = "free"
    /\ valve_lock' = "emergency_close"
    /\ wd_threads' = [wd_threads EXCEPT ![t].pc = "closing"]
    /\ UNCHANGED << runnervars, tablevars, valve_pos, monitor, env, safety,
                    watchdog, heartbeat_age, sensor_age, set_call,
                    restvars >>

\* emergency_close: the motor has stepped back to 0, or the stepping has
\* raised an exception; the lock is released either way
WdCloseDone(t) ==
    /\ wd_threads[t].pc = "closing"
    /\ valve_lock' = "free"
    /\ \/ Raise(t, "actuator") /\ UNCHANGED valve_pos
       \/ /\ valve_pos' = emergency_close(valve_pos)
          /\ wd_threads' = [wd_threads EXCEPT ![t].pc = "notify"]
    /\ UNCHANGED << runnervars, tablevars, monitor, env, safety, watchdog,
                    heartbeat_age, sensor_age, set_call,
                    restvars >>

\* _trigger_emergency: the notification, then the loop's `continue`
WdNotify(t) ==
    /\ wd_threads[t].pc = "notify"
    /\ \/ Raise(t, "notify")
       \/ wd_threads' = [wd_threads EXCEPT ![t].pc = "test"]
    /\ UNCHANGED << runnervars, tablevars, valve_pos, monitor, env, safety,
                    watchdog, heartbeat_age, sensor_age, valve_lock,
                    set_call,
                    restvars >>

\* _watchdog_loop: time.sleep(WATCHDOG_INTERVAL) returns
WdLoopSleep(t) ==
    /\ wd_threads[t].pc = "sleep"
    /\ wd_threads' = [wd_threads EXCEPT ![t].pc = "test"]
    /\ UNCHANGED << runnervars, tablevars, valve_pos, monitor, env, safety,
                    watchdog, heartbeat_age, sensor_age, valve_lock,
                    set_call,
                    restvars >>

WdThreadStep(t) ==
    \/ WdLoopTest(t)
    \/ WdLoopPoll(t)
    \/ WdCloseAcquire(t)
    \/ WdCloseDone(t)
    \/ WdNotify(t)
    \/ WdLoopSleep(t)

\* a control loop calls actuators.set_valve_position(percentage)
SetPositionCall ==
    /\ set_call.pc = "idle"
    /\ \E percentage \in Percentages :
          set_call' = [pc |-> "lock", percentage |-> percentage]
    /\ UNCHANGED << runnervars, tablevars, valve_pos, monitor, env, safety,
                    watchdog, heartbeat_age, sensor_age, valve_lock,
                    wd_threads,
                    restvars >>

\* set_position: with self.lock; it returns at once when the valve is
\* already there
SetPositionAcquire ==
    /\ set_call.pc = "lock"
    /\ valve_lock = "free"
    /\ IF set_position(set_call.percentage) = valve_pos
       THEN /\ set_call' = [set_call EXCEPT !.pc = "idle"]
            /\ UNCHANGED valve_lock
       ELSE /\ set_call' = [set_call EXCEPT !.pc = "stepping"]
            /\ valve_lock' = "set_position"
    /\ UNCHANGED << runnervars, tablevars, valve_pos, monitor, env, safety,
                    watchdog, heartbeat_age, sensor_age, wd_threads,
                    restvars >>

\* set_position: the motor has stepped to the target; the lock is released
SetPositionDone ==
    /\ set_call.pc = "stepping"
    /\ valve_pos' = set_position(set_call.percentage)
    /\ valve_lock' = "free"
    /\ set_call' = [set_call EXCEPT !.pc = "idle"]
    /\ UNCHANGED << runnervars, tablevars, monitor, env, safety, watchdog,
                    heartbeat_age, sensor_age, wd_threads,
                    restvars >>

\* Watchdog.feed, called by the sensor loop
Feed ==
    /\ heartbeat_age > 0
    /\ heartbeat_age' = 0
    /\ UNCHANGED << runnervars, valve_pos, monitor, env, safety,
                    watchdog, sensor_age, libvars,
                    restvars >>

\* Watchdog.report_sensor_ok, called by the sensor loop
ReportSensorOk ==
    /\ \E temperature \in KilnTemps :
          watchdog' = report_sensor_ok(watchdog, temperature)
    /\ sensor_age' = 0
    /\ UNCHANGED << runnervars, tablevars, valve_pos, monitor, env, safety,
                    heartbeat_age, valve_lock, set_call, wd_threads,
                    restvars >>

(* ------------------- SafetyMonitor with its alarms -------------------- *)
\* The monitor as an object of its own: the alarm list, is_safe and the
\* flag, under any sequence of calls. Temperatures are in half degrees,
\* rates in degrees per hour.
MAX_TEMP == Deg(1290)
COOLING_RATE_WARNING == 300
MAX_RATE_UP == 400

\* how long the alarm list may get when check_sensor_health is called
\* again and again with no check_all in between
MaxAlarms == 3

\* SafetyMonitor.__init__; samples is len(temp_history), counted up to 2,
\* which is all that check 4 asks of it
SafetyMonitor_init ==
    [alarms |-> << >>, samples |-> 0, is_safe |-> TRUE,
     emergency_stop_triggered |-> FALSE]

\* no call yet, and the result of a call that returns no dict
NoSafetyCall ==
    [op |-> "none", temp_hot |-> 0, was_triggered |-> FALSE,
     result |-> [is_safe |-> TRUE, alarms |-> << >>, actions |-> << >>,
                 emergency_stop |-> FALSE]]

\* checks 1 and 2 with the ceiling reached at the limit itself
temperature_check_at_limit(temp_hot) ==
    IF temp_hot >= OVER_TEMP
    THEN [alarms |-> << [level |-> "CRITICAL", code |-> "OVER_TEMP"] >>,
          actions |-> << "emergency_shutdown" >>, emergency |-> TRUE]
    ELSE IF temp_hot > MAX_TEMP
    THEN [alarms |-> << [level |-> "WARNING", code |-> "MAX_TEMP"] >>,
          actions |-> << "reduce_power" >>, emergency |-> FALSE]
    ELSE [alarms |-> << >>, actions |-> << >>, emergency |-> FALSE]

\* checks 1 and 2 of check_all: if temp_hot > OVER_TEMP ... elif
\* temp_hot > MAX_TEMP ...
temperature_check(temp_hot) ==
    IF temp_hot > OVER_TEMP
    THEN [alarms |-> << [level |-> "CRITICAL", code |-> "OVER_TEMP"] >>,
          actions |-> << "emergency_shutdown" >>, emergency |-> TRUE]
    ELSE IF temp_hot > MAX_TEMP
    THEN [alarms |-> << [level |-> "WARNING", code |-> "MAX_TEMP"] >>,
          actions |-> << "reduce_power" >>, emergency |-> FALSE]
    ELSE [alarms |-> << >>, actions |-> << >>, emergency |-> FALSE]

\* SafetyMonitor.check_all. rate_up is what _calculate_heating_rate makes
\* of the history and the clock: some rate that is not negative.
SafetyMonitor_check_all(m, temp_hot, temp_cold, cooling_rate, rate_up) ==
    LET c12 == temperature_check(temp_hot)
        samples == Min(m.samples + 1, 2)
        c3 == temp_hot < Deg(700) /\ Abs(cooling_rate) > COOLING_RATE_WARNING
        c4 == samples >= 2 /\ rate_up > MAX_RATE_UP
        alarms ==
            c12.alarms
            \o (IF c3 THEN << [level |-> "WARNING", code |-> "FAST_COOLING"] >>
                      ELSE << >>)
            \o (IF c4 THEN << [level |-> "WARNING", code |-> "FAST_HEATING"] >>
                      ELSE << >>)
        actions ==
            c12.actions
            \o (IF c3 THEN << "notify_user" >> ELSE << >>)
            \o (IF c4 THEN << "reduce_power" >> ELSE << >>)
        is_safe == \A i \in 1..Len(alarms) : alarms[i].level # "CRITICAL"
        triggered == c12.emergency \/ m.emergency_stop_triggered
    IN  [self |-> [alarms |-> alarms, samples |-> samples,
                   is_safe |-> is_safe,
                   emergency_stop_triggered |-> triggered],
         result |-> [is_safe |-> is_safe, alarms |-> alarms,
                     actions |-> actions, emergency_stop |-> triggered]]

\* check_sensor_health taking a connected sensor for the end of the
\* emergency
SafetyMonitor_check_sensor_health_clearing(m, sensor_status) ==
    IF sensor_status # "connected"
    THEN [m EXCEPT !.alarms = Append(@, [level |-> "CRITICAL",
                                         code |-> "SENSOR_ERROR"]),
                   !.is_safe = FALSE,
                   !.emergency_stop_triggered = TRUE]
    ELSE [m EXCEPT !.emergency_stop_triggered = FALSE]

\* SafetyMonitor.check_sensor_health
SafetyMonitor_check_sensor_health(m, sensor_status) ==
    IF sensor_status # "connected"
    THEN [m EXCEPT !.alarms = Append(@, [level |-> "CRITICAL",
                                         code |-> "SENSOR_ERROR"]),
                   !.is_safe = FALSE,
                   !.emergency_stop_triggered = TRUE]
    ELSE m

\* SafetyMonitor.reset_emergency
SafetyMonitor_reset_emergency(m) ==
    [m EXCEPT !.emergency_stop_triggered = FALSE, !.alarms = << >>]

\* readings around the two limits, the last ones half a degree above
SafetyTemps ==
    {Deg(600), MAX_TEMP, MAX_TEMP + 1, OVER_TEMP, OVER_TEMP + 1, Deg(1315)}

\* app.py 135-139, with any readings
CheckAll ==
    /\ \E temp_hot \in SafetyTemps, cooling_rate \in {0, 0 - 350},
          rate_up \in {0, 500} :
          LET r == SafetyMonitor_check_all(safety_monitor, temp_hot, Deg(20),
                                           cooling_rate, rate_up)
          IN  /\ safety_monitor' = r.self
              /\ safety_call' =
                    [op |-> "check_all", temp_hot |-> temp_hot,
                     was_triggered |->
                         safety_monitor.emergency_stop_triggered,
                     result |-> r.result]
    /\ UNCHANGED << kilnvars, tablevars, valvevars, pidvars,
                    tunervars, learnervars, tracevars,
                    managervars >>

\* app.py 127, with any status
CheckSensorHealth ==
    /\ Len(safety_monitor.alarms) < MaxAlarms
    /\ \E sensor_status \in {"connected", "connecting", "error"} :
          safety_monitor' =
              SafetyMonitor_check_sensor_health(safety_monitor, sensor_status)
    /\ safety_call' =
          [NoSafetyCall EXCEPT
              !.op = "check_sensor_health",
              !.was_triggered = safety_monitor.emergency_stop_triggered]
    /\ UNCHANGED << kilnvars, tablevars, valvevars, pidvars,
                    tunervars, learnervars, tracevars,
                    managervars >>

\* POST /api/safety/reset and POST /api/watchdog/reset
ResetEmergency ==
    /\ safety_monitor' = SafetyMonitor_reset_emergency(safety_monitor)
    /\ safety_call' =
          [NoSafetyCall EXCEPT
              !.op = "reset_emergency",
              !.was_triggered = safety_monitor.emergency_stop_triggered]
    /\ UNCHANGED << kilnvars, tablevars, valvevars, pidvars,
                    tunervars, learnervars, tracevars,
                    managervars >>

(* --------------------------- PIDController ---------------------------- *)
\* The controller as an object of its own. Temperatures and errors are in
\* degrees, time steps in tenths of a second, the integral in tenths of a
\* degree second, gains in 1/10000 as in the table, and the terms and the
\* output in 1/100000 of a percent, so that every term is a whole number.
PID_INTEGRAL_MAX == 500
PID_INTEGRAL_MIN == 0 - 500

Percent(p) == 100000 * p

\* PIDController.__init__
PIDController_init ==
    [kp |-> PID_KP, ki |-> PID_KI, kd |-> PID_KD,
     prev_error |-> 0, integral |-> 0,
     integral_max |-> 10 * PID_INTEGRAL_MAX,
     integral_min |-> 10 * PID_INTEGRAL_MIN,
     last_output |-> 0, last_p_term |-> 0, last_i_term |-> 0,
     last_d_term |-> 0]

\* compute with no limit on the integral
anti_windup_off(p, integral) == integral

\* compute, line 71: the integral is held within its limits
anti_windup(p, integral) ==
    Max(p.integral_min, Min(p.integral_max, integral))

\* compute with the integral fed by the measured value, not by the error
compute_on_measured(p, setpoint, current_value, elapsed) ==
    LET dt == IF elapsed <= 0 THEN 1 ELSE elapsed
        error == setpoint - current_value
        p_term == 10 * p.kp * error
        integral == anti_windup(p, p.integral + current_value * dt)
        i_term == p.ki * integral
        d_term == (100 * p.kd * (error - p.prev_error)) \div dt
        output == Max(0, Min(Percent(100), p_term + i_term + d_term))
    IN  [p EXCEPT !.integral = integral, !.prev_error = error,
                  !.last_output = output, !.last_p_term = p_term,
                  !.last_i_term = i_term, !.last_d_term = d_term]

\* PIDController.compute; elapsed is now - prev_time
compute(p, setpoint, current_value, elapsed) ==
    LET dt == IF elapsed <= 0 THEN 1 ELSE elapsed
        error == setpoint - current_value
        p_term == 10 * p.kp * error
        integral == anti_windup(p, p.integral + error * dt)
        i_term == p.ki * integral
        d_term == (100 * p.kd * (error - p.prev_error)) \div dt
        output == Max(0, Min(Percent(100), p_term + i_term + d_term))
    IN  [p EXCEPT !.integral = integral, !.prev_error = error,
                  !.last_output = output, !.last_p_term = p_term,
                  !.last_i_term = i_term, !.last_d_term = d_term]

\* PIDController.reset
reset(p) ==
    [p EXCEPT !.integral = 0, !.prev_error = 0, !.last_p_term = 0,
              !.last_i_term = 0, !.last_d_term = 0]

\* PIDController.set_tunings
set_tunings(p, kp, ki, kd) == [p EXCEPT !.kp = kp, !.ki = ki, !.kd = kd]

\* setpoints and measured temperatures: errors up to 400 degrees either
\* way, far beyond what the output can follow
PidTemps == {0, 200, 400}

\* time steps: the clock set back by a second, no time at all, 0.1 s,
\* 1 s and the control cycle's 5 s
TimeSteps == {0 - 10, 0, 1, 10, 50}

\* gains a caller may set: the configured ones, the largest the table
\* allows with no derivative, negative ones
Tunings ==
    { [Kp |-> PID_KP, Ki |-> PID_KI, Kd |-> PID_KD],
      [Kp |-> 100000, Ki |-> 2000, Kd |-> 0],
      [Kp |-> 0 - 25000, Ki |-> 0 - 300, Kd |-> 0] }

\* program_runner.py 316 and app.py 183, with any arguments
Compute ==
    /\ \E setpoint \in PidTemps, current_value \in PidTemps,
          elapsed \in TimeSteps :
          /\ pid' = compute(pid, setpoint, current_value, elapsed)
          /\ pid_call' = [op |-> "compute", elapsed |-> elapsed]
    /\ UNCHANGED << kilnvars, tablevars, valvevars, monitorvars,
                    tunervars, learnervars, tracevars,
                    managervars >>

\* app.py 345 and 573, pid_adaptive.py 373 and 393
SetTunings ==
    /\ \E g \in Tunings : pid' = set_tunings(pid, g.Kp, g.Ki, g.Kd)
    /\ pid_call' = [op |-> "set_tunings", elapsed |-> 0]
    /\ UNCHANGED << kilnvars, tablevars, valvevars, monitorvars,
                    tunervars, learnervars, tracevars,
                    managervars >>

\* program_runner.py 125
Reset ==
    /\ pid' = reset(pid)
    /\ pid_call' = [op |-> "reset", elapsed |-> 0]
    /\ UNCHANGED << kilnvars, tablevars, valvevars, monitorvars,
                    tunervars, learnervars, tracevars,
                    managervars >>

(* --------------------------- RelayAutotuner --------------------------- *)
\* The autotuner and the branch of the sensor loop that drives it
\* (app.py 152-175). start() and stop() come from request threads at any
\* point of that branch. Of the crossings the directions are kept, of the
\* peaks the last three temperatures of each type and their number up to 4:
\* what _is_complete and _calculate_pid read. The gains are followed as
\* defined or not; their values need pi.
min_oscillations == 3

RelayAutotuner_init ==
    [setpoint |-> Deg(500), relay_high |-> 25, relay_low |-> 0,
     hysteresis |-> Deg(5), is_running |-> FALSE, phase |-> "idle",
     crossings |-> << >>, max_peaks |-> << >>, min_peaks |-> << >>,
     n_peaks |-> 0, defined |-> {}, relay_state |-> FALSE,
     last_direction |-> "none", temp_buffer |-> << >>,
     completion_notified |-> FALSE]

\* the last n elements of a list: seq[-n:]
LastN(seq, n) ==
    IF Len(seq) <= n THEN seq ELSE SubSeq(seq, Len(seq) - n + 1, Len(seq))

\* RelayAutotuner._adapt_relay_params
adapt_relay_params(a, temp) ==
    LET high == IF temp <= Deg(200) THEN 15 ELSE IF temp <= Deg(400) THEN 20
                ELSE IF temp <= Deg(600) THEN 25 ELSE 30
        hyst == IF temp <= Deg(200) THEN 3 ELSE IF temp <= Deg(400) THEN 4
                ELSE IF temp <= Deg(600) THEN 5 ELSE 6
    IN  [a EXCEPT !.relay_high = high, !.hysteresis = Deg(hyst),
                  !.relay_low = 0, !.setpoint = temp]

\* RelayAutotuner.start, called with test_temperature = temp (app.py
\* 515-517); last_direction, relay_state and _completion_notified stay
autotuner_start(a, temp) ==
    [adapt_relay_params(a, temp) EXCEPT
        !.is_running = TRUE, !.phase = "heating", !.crossings = << >>,
        !.max_peaks = << >>, !.min_peaks = << >>, !.n_peaks = 0,
        !.temp_buffer = << >>, !.defined = {}]

\* RelayAutotuner.stop
autotuner_stop(a) == [a EXCEPT !.is_running = FALSE, !.phase = "idle"]

\* the heating phase's aperture for a distance from the setpoint
heating_valve(temp_diff) ==
    IF temp_diff > Deg(400) THEN 35
    ELSE IF temp_diff > Deg(300) THEN 30
    ELSE IF temp_diff > Deg(200) THEN 25
    ELSE IF temp_diff > Deg(100) THEN 20
    ELSE IF temp_diff > Deg(50) THEN 15
    ELSE IF temp_diff > Deg(20) THEN 10
    ELSE 5

\* a detection that records every traversal, whatever the last direction
detect_crossing_every_traversal(a, temp) ==
    IF Len(a.temp_buffer) < 2 THEN a
    ELSE LET prev_temp == a.temp_buffer[Len(a.temp_buffer) - 1]
         IN  IF prev_temp < a.setpoint /\ a.setpoint <= temp
             THEN [a EXCEPT !.crossings = Append(@, "up"),
                            !.last_direction = "up"]
             ELSE IF prev_temp > a.setpoint /\ a.setpoint >= temp
             THEN [a EXCEPT !.crossings = Append(@, "down"),
                            !.last_direction = "down"]
             ELSE a

\* RelayAutotuner._detect_crossing; the buffer already holds temp
detect_crossing(a, temp) ==
    IF Len(a.temp_buffer) < 2 THEN a
    ELSE LET prev_temp == a.temp_buffer[Len(a.temp_buffer) - 1]
         IN  IF prev_temp < a.setpoint /\ a.setpoint <= temp
             THEN IF a.last_direction # "up"
                  THEN [a EXCEPT !.crossings = Append(@, "up"),
                                 !.last_direction = "up"]
                  ELSE a
             ELSE IF prev_temp > a.setpoint /\ a.setpoint >= temp
             THEN IF a.last_direction # "down"
                  THEN [a EXCEPT !.crossings = Append(@, "down"),
                                 !.last_direction = "down"]
                  ELSE a
             ELSE a

\* RelayAutotuner._detect_peaks
detect_peaks(a) ==
    IF Len(a.temp_buffer) < 3 THEN a
    ELSE LET n == Len(a.temp_buffer)
             t3 == a.temp_buffer[n - 2]
             t2 == a.temp_buffer[n - 1]
             t1 == a.temp_buffer[n]
         IN  IF t3 < t2 /\ t2 > t1
             THEN [a EXCEPT !.max_peaks = LastN(Append(@, t2), 3),
                            !.n_peaks = Min(@ + 1, 4)]
             ELSE IF t3 > t2 /\ t2 < t1
             THEN [a EXCEPT !.min_peaks = LastN(Append(@, t2), 3),
                            !.n_peaks = Min(@ + 1, 4)]
             ELSE a

\* _is_complete asking for more than min_oscillations
is_complete_late(a) == Len(a.crossings) \div 2 > min_oscillations

\* RelayAutotuner._is_complete
is_complete(a) == Len(a.crossings) \div 2 >= min_oscillations

\* RelayAutotuner._calculate_pid: the object it leaves and whether a
\* ZeroDivisionError left it. avg_max - avg_min has the sign of diff.
calculate_pid(a) ==
    IF Len(a.crossings) < min_oscillations * 2
    THEN [self |-> [a EXCEPT !.phase = "error"], raised |-> FALSE]
    ELSE IF a.n_peaks < 4
    THEN [self |-> [a EXCEPT !.phase = "error", !.defined = {"Pu"}],
          raised |-> FALSE]
    ELSE IF a.max_peaks = << >> \/ a.min_peaks = << >>
    THEN [self |-> [a EXCEPT !.defined = {"Pu"}], raised |-> TRUE]
    ELSE LET diff == SumSeq(a.max_peaks) * Len(a.min_peaks)
                     - SumSeq(a.min_peaks) * Len(a.max_peaks)
         IN  IF diff = 0
             THEN [self |-> [a EXCEPT !.defined = {"Pu", "amplitude"}],
                   raised |-> TRUE]
             ELSE [self |-> [a EXCEPT !.defined =
                        {"Pu", "amplitude", "Ku", "Kp", "Ki", "Kd"}],
                   raised |-> FALSE]

\* RelayAutotuner.get_results: the names it returns, nothing, or the
\* TypeError of 0.45 * None
get_results(a) ==
    IF a.phase # "complete" THEN "None"
    ELSE IF "Ku" \in a.defined THEN "results" ELSE "TypeError"

\* compute_valve_position, lines 165-190 and the test of the phase: the
\* object, the branch taken and what is returned if the call ends here
compute_begin(a, current_temp, expired) ==
    IF ~ a.is_running
    THEN [self |-> a, branch |-> "return", ret |-> None]
    ELSE LET b == [a EXCEPT !.temp_buffer =
                                 LastN(Append(@, current_temp), 3)]
         IN  IF expired
             THEN [self |-> [b EXCEPT !.phase = "error",
                                      !.is_running = FALSE],
                   branch |-> "return", ret |-> 0]
             ELSE IF b.phase \in {"heating", "relay"}
             THEN [self |-> b, branch |-> b.phase, ret |-> None]
             ELSE IF b.phase \in {"complete", "error"}
             THEN [self |-> b, branch |-> "return", ret |-> 0]
             ELSE [self |-> b, branch |-> "return", ret |-> None]

\* compute_valve_position, lines 194-238
compute_heating(a, current_temp) ==
    LET temp_diff == a.setpoint - current_temp
    IN  [self |-> IF temp_diff < Deg(20)
                  THEN [a EXCEPT !.phase = "relay", !.relay_state = FALSE]
                  ELSE a,
         ret |-> heating_valve(temp_diff), raised |-> FALSE]

\* the relay phase without the memory of its last output inside the band
compute_relay_low_in_band(a, current_temp) ==
    LET state == IF current_temp < a.setpoint - a.hysteresis THEN TRUE
                 ELSE FALSE
        valve == IF state THEN a.relay_high ELSE a.relay_low
        b == detect_peaks(detect_crossing([a EXCEPT !.relay_state = state],
                                          current_temp))
    IN  IF is_complete(b)
        THEN LET c == calculate_pid([b EXCEPT !.phase = "complete"])
             IN  [self |-> c.self, ret |-> 0, raised |-> c.raised]
        ELSE [self |-> b, ret |-> valve, raised |-> FALSE]

\* compute_valve_position, lines 242-267
compute_relay(a, current_temp) ==
    LET state == IF current_temp < a.setpoint - a.hysteresis THEN TRUE
                 ELSE IF current_temp > a.setpoint + a.hysteresis THEN FALSE
                 ELSE a.relay_state
        valve == IF state THEN a.relay_high ELSE a.relay_low
        b == detect_peaks(detect_crossing([a EXCEPT !.relay_state = state],
                                          current_temp))
    IN  IF is_complete(b)
        THEN LET c == calculate_pid([b EXCEPT !.phase = "complete"])
             IN  [self |-> c.self, ret |-> 0, raised |-> c.raised]
        ELSE [self |-> b, ret |-> valve, raised |-> FALSE]

\* temperatures around a setpoint of 500: 20 below, which is below the
\* relay's band and not yet near enough to end the heating, on the
\* setpoint, and above the band
AutotuneTemps == {Deg(480), Deg(500), Deg(510)}

\* the variables the autotuning branch leaves alone
notunervars ==
    << runnervars, monitor, env, safety, watchdog, heartbeat_age,
       sensor_age, applied, valvevars, monitorvars, pidvars, learnervars,
       tracevars, managervars >>

\* POST /api/autotuning/start
AutotuneStart ==
    /\ autotuner' = autotuner_start(autotuner, Deg(500))
    /\ autotune_loop' = [autotune_loop EXCEPT !.expired = FALSE]
    /\ UNCHANGED << notunervars, valve_pos, bands >>

\* POST /api/autotuning/stop
AutotuneStop ==
    /\ autotuner' = autotuner_stop(autotuner)
    /\ UNCHANGED << notunervars, valve_pos, bands, autotune_loop >>

\* max_duration seconds have passed since start()
DurationExceeded ==
    /\ autotuner.phase # "idle"
    /\ ~ autotune_loop.expired
    /\ autotune_loop' = [autotune_loop EXCEPT !.expired = TRUE]
    /\ UNCHANGED << notunervars, valve_pos, bands, autotuner >>

\* app.py 152: if autotuner.is_running, with the reading of this iteration
LoopTest ==
    /\ autotune_loop.pc = "idle"
    /\ autotuner.is_running
    /\ \E temp \in AutotuneTemps :
          autotune_loop' = [autotune_loop EXCEPT !.pc = "call",
                                                 !.temp = temp]
    /\ UNCHANGED << notunervars, valve_pos, bands, autotuner >>

\* app.py 153: the call enters compute_valve_position
ComputeBegin ==
    /\ autotune_loop.pc = "call"
    /\ LET r == compute_begin(autotuner, autotune_loop.temp,
                              autotune_loop.expired)
       IN  /\ autotuner' = r.self
           /\ autotune_loop' =
                 [autotune_loop EXCEPT
                     !.pc = IF r.branch = "return" THEN "after" ELSE "body",
                     !.branch = r.branch, !.ret = r.ret]
    /\ UNCHANGED << notunervars, valve_pos, bands >>

\* the heating or the relay phase of the call; an exception of
\* _calculate_pid ends the sensor loop, which catches nothing
ComputeBody ==
    /\ autotune_loop.pc = "body"
    /\ LET r == IF autotune_loop.branch = "heating"
                THEN compute_heating(autotuner, autotune_loop.temp)
                ELSE compute_relay(autotuner, autotune_loop.temp)
       IN  /\ autotuner' = r.self
           /\ autotune_loop' =
                 [autotune_loop EXCEPT
                     !.pc = IF r.raised THEN "dead" ELSE "after",
                     !.ret = IF r.raised THEN None ELSE r.ret]
    /\ UNCHANGED << notunervars, valve_pos, bands >>

\* app.py 154-175: the command to the valve and the end of a complete
\* session
LoopAfter ==
    /\ autotune_loop.pc = "after"
    /\ valve_pos' = IF autotune_loop.ret # None THEN autotune_loop.ret
                    ELSE valve_pos
    /\ IF autotuner.phase = "complete"
       THEN IF "Kp" \notin autotuner.defined
                /\ ~ autotuner.completion_notified
            THEN /\ autotune_loop' = [autotune_loop EXCEPT !.pc = "dead"]
                 /\ UNCHANGED << autotuner, bands >>
            ELSE /\ autotune_loop' = [autotune_loop EXCEPT !.pc = "idle"]
                 /\ autotuner' = [autotuner EXCEPT
                                     !.is_running = FALSE,
                                     !.completion_notified = TRUE]
                 /\ IF autotuner.completion_notified
                    THEN UNCHANGED bands
                    ELSE \E g \in AutotuneResults :
                            bands' = set_base_from_autotuning(
                                         bands, g.Kp, g.Ki, g.Kd)
       ELSE /\ autotune_loop' = [autotune_loop EXCEPT !.pc = "idle"]
            /\ UNCHANGED << autotuner, bands >>
    /\ UNCHANGED notunervars

(* ---------------------- PIDAnalyzer and PIDLearner --------------------- *)
\* A firing's log is known by the errors it holds per band: the mean
\* absolute error, the overshoot and the bias in whole degrees and the
\* oscillation index in thousandths.  Suggestions are kept without their
\* reason text.  New gains are on the table's grid; a product that falls
\* off the grid is cut to it.
QUALITY_THRESHOLDS ==
    [overshoot_good |-> 5, overshoot_bad |-> 15, mae_good |-> 3,
     mae_bad |-> 10, oscillation_good |-> 100, oscillation_bad |-> 300]

ADJUSTMENT_PERCENT == [small |-> 5, large |-> 10]

MIN_FIRINGS_TO_LEARN == 2

SKIP_IF_QUALITY == {"excellent", "good"}

\* how many analyses _confirm_recurring looks back over
RecentFirings == 5

\* the bands a firing's log has samples of, in the order of band_metrics
LogBands == << 0, 200 >>

\* _rate_quality
rate_quality(mae, overshoot, osc_index) ==
    LET s1 == IF mae <= QUALITY_THRESHOLDS.mae_good THEN 3
              ELSE IF mae <= QUALITY_THRESHOLDS.mae_bad THEN 1 ELSE 0
        s2 == IF overshoot <= QUALITY_THRESHOLDS.overshoot_good THEN 3
              ELSE IF overshoot <= QUALITY_THRESHOLDS.overshoot_bad THEN 1
              ELSE 0
        s3 == IF osc_index <= QUALITY_THRESHOLDS.oscillation_good THEN 2
              ELSE IF osc_index <= QUALITY_THRESHOLDS.oscillation_bad THEN 1
              ELSE 0
        score == s1 + s2 + s3
    IN  IF score >= 7 THEN "excellent"
        ELSE IF score >= 5 THEN "good"
        ELSE IF score >= 3 THEN "acceptable"
        ELSE "poor"

\* _analyze_band: the metrics of a band that has samples
analyze_band(mae, overshoot, bias, osc_index) ==
    [overshoot |-> overshoot, mae |-> mae, bias |-> bias,
     oscillation_index |-> osc_index,
     quality |-> rate_quality(mae, overshoot, osc_index)]

\* _generate_suggestions for one band
band_suggestions(band, metrics) ==
    LET S(param, direction, magnitude) ==
            << [band |-> band, param |-> param, direction |-> direction,
                magnitude |-> magnitude] >>
        on_overshoot ==
            IF metrics.overshoot > QUALITY_THRESHOLDS.overshoot_bad
            THEN S("Kp", "decrease", "large")
            ELSE IF metrics.overshoot > QUALITY_THRESHOLDS.overshoot_good
            THEN S("Kp", "decrease", "small")
            ELSE << >>
        on_bias ==
            IF metrics.bias > 5 THEN S("Ki", "decrease", "small")
            ELSE IF metrics.bias < 0 - 5 THEN S("Ki", "increase", "small")
            ELSE << >>
        on_oscillation ==
            IF metrics.oscillation_index > QUALITY_THRESHOLDS.oscillation_bad
            THEN S("Kp", "decrease", "small") \o S("Kd", "decrease", "small")
            ELSE << >>
        on_mae ==
            IF /\ metrics.mae > QUALITY_THRESHOLDS.mae_bad
               /\ metrics.oscillation_index
                     < QUALITY_THRESHOLDS.oscillation_good
            THEN S("Kp", "increase", "small")
            ELSE << >>
    IN  IF metrics.quality \in {"no_data", "excellent"} THEN << >>
        ELSE on_overshoot \o on_bias \o on_oscillation \o on_mae

\* _generate_suggestions: the bands of band_metrics in their order
RECURSIVE generate_upto(_, _)
generate_upto(band_metrics, n) ==
    IF n = 0 THEN << >>
    ELSE generate_upto(band_metrics, n - 1)
         \o band_suggestions(LogBands[n], band_metrics[LogBands[n]])

generate_suggestions(band_metrics) ==
    generate_upto(band_metrics, Len(LogBands))

\* the logs of the firings: what the kiln did in the two bands
Logs == {"steady", "swinging", "overshooting", "sluggish"}

LogMetrics(log) ==
    LET steady == analyze_band(1, 2, 0, 50)
        fair == analyze_band(2, 8, 1, 50)
        swinging == analyze_band(8, 8, 0, 1000)
        overshooting == analyze_band(12, 20, 6, 400)
        sluggish == analyze_band(12, 8, 0 - 6, 50)
    IN  CASE log = "steady" -> (0 :> steady @@ 200 :> steady)
          [] log = "swinging" -> (0 :> swinging @@ 200 :> steady)
          [] log = "overshooting" -> (0 :> overshooting @@ 200 :> fair)
          [] log = "sluggish" -> (0 :> sluggish @@ 200 :> fair)

\* analyze_firing: the FiringAnalysis of a log
analyze_firing(log) ==
    [band_metrics |-> LogMetrics(log),
     suggestions |-> generate_suggestions(LogMetrics(log))]

\* analyze_all_logs: the analyses of the logs, oldest first
analyze_all_logs(logs) == [i \in DOMAIN logs |-> analyze_firing(logs[i])]

PIDLearner_init ==
    [mode |-> "suggest", history |-> << >>, pending_suggestions |-> << >>]

NoLearnCall ==
    [op |-> "none", calls |-> 0, mode |-> "suggest", logs |-> << >>,
     before |-> create_default_table, queue |-> << >>,
     ret |-> [applied |-> 0, skipped |-> 0, pending |-> 0]]

\* the (band, param, direction) of a suggestion
Key(sugg) == << sugg.band, sugg.param, sugg.direction >>

\* _filter_suggestions
filter_suggestions_none(suggestions, band_metrics) == suggestions

filter_suggestions(suggestions, band_metrics) ==
    SelectSeq(suggestions,
              LAMBDA sugg :
                 band_metrics[sugg.band].quality \notin SKIP_IF_QUALITY)

\* _confirm_recurring: problem_count of a key over the analyses given
RECURSIVE problem_count(_, _)
problem_count(analyses, key) ==
    IF analyses = << >> THEN 0
    ELSE Len(SelectSeq(Head(analyses).suggestions,
                       LAMBDA sugg : Key(sugg) = key))
         + problem_count(Tail(analyses), key)

confirm_recurring(suggestions, analyses) ==
    IF Len(analyses) < 2 THEN suggestions
    ELSE SelectSeq(suggestions,
                   LAMBDA sugg :
                      problem_count(LastN(analyses, RecentFirings),
                                    Key(sugg)) >= 2)

\* the new value of a gain: old * (1 +- percent / 100)
new_val(old_val, direction, magnitude) ==
    LET percent == ADJUSTMENT_PERCENT[magnitude]
    IN  IF direction = "increase"
        THEN (old_val * (100 + percent)) \div 100
        ELSE (old_val * (100 - percent)) \div 100

\* by_band's keys: the bands of the suggestions, each at its first place
RECURSIVE by_band(_)
by_band(suggestions) ==
    IF suggestions = << >> THEN << >>
    ELSE LET front == by_band(SubSeq(suggestions, 1, Len(suggestions) - 1))
             band == suggestions[Len(suggestions)].band
         IN  IF \E i \in DOMAIN front : front[i] = band THEN front
             ELSE Append(front, band)

\* the suggestion of a band's list that sets a parameter
first_of(band_suggestions_, param) ==
    LET idx == { i \in DOMAIN band_suggestions_ :
                    band_suggestions_[i].param = param }
    IN  CHOOSE i \in idx : \A j \in idx : i <= j

last_of(band_suggestions_, param) ==
    LET idx == { i \in DOMAIN band_suggestions_ :
                    band_suggestions_[i].param = param }
    IN  CHOOSE i \in idx : \A j \in idx : i >= j

\* _apply_suggestions: the loop over the bands, the first n of them
RECURSIVE apply_upto(_, _, _, _)
apply_upto(l, b, suggestions, n) ==
    IF n = 0
    THEN [self |-> l, bands |-> b,
          ret |-> [applied |-> 0, skipped |-> 0, pending |-> 0]]
    ELSE LET prev == apply_upto(l, b, suggestions, n - 1)
             band == by_band(suggestions)[n]
             mine == SelectSeq(suggestions, LAMBDA sugg : sugg.band = band)
             current == prev.bands[band].current
             applied_params == { mine[i].param : i \in DOMAIN mine }
             new_params ==
                 [param \in ParamNames |->
                    IF param \in applied_params
                    THEN LET sugg == mine[first_of(mine, param)]
                         IN  new_val(current[param], sugg.direction,
                                     sugg.magnitude)
                    ELSE current[param]]
             u == update_band(prev.bands, band, new_params.Kp,
                              new_params.Ki, new_params.Kd)
         IN  [self |-> [prev.self EXCEPT
                          !.history = Append(@, [band |-> band,
                                                 mode |-> "auto"])],
              bands |-> u.bands,
              ret |-> [applied |-> prev.ret.applied
                                     + Cardinality(applied_params),
                       skipped |-> prev.ret.skipped + Len(mine)
                                     - Cardinality(applied_params),
                       pending |-> 0]]

apply_suggestions(l, b, suggestions) ==
    apply_upto(l, b, suggestions, Len(by_band(suggestions)))

\* _queue_suggestions
queue_suggestions(l, b, suggestions) ==
    LET queued ==
            [i \in DOMAIN suggestions |->
               LET sugg == suggestions[i]
                   old_val == b[sugg.band].current[sugg.param]
               IN  [band |-> sugg.band, param |-> sugg.param,
                    old_value |-> old_val,
                    new_value |-> round6(new_val(old_val, sugg.direction,
                                                 sugg.magnitude))]]
    IN  [self |-> [l EXCEPT !.pending_suggestions = queued],
         bands |-> b,
         ret |-> [applied |-> 0, skipped |-> 0, pending |-> Len(queued)]]

\* approve_pending: the loop over the bands of a list of queued suggestions
RECURSIVE approve_upto(_, _, _, _)
approve_upto(l, b, queued, n) ==
    IF n = 0 THEN [self |-> l, bands |-> b, applied |-> 0]
    ELSE LET prev == approve_upto(l, b, queued, n - 1)
             band == by_band(queued)[n]
             mine == SelectSeq(queued, LAMBDA sugg : sugg.band = band)
             params == { mine[i].param : i \in DOMAIN mine }
             current == prev.bands[band].current
             new_params ==
                 [param \in ParamNames |->
                    IF param \in params
                    THEN mine[last_of(mine, param)].new_value
                    ELSE current[param]]
             u == update_band(prev.bands, band, new_params.Kp,
                              new_params.Ki, new_params.Kd)
         IN  [self |-> [prev.self EXCEPT
                          !.history = Append(@, [band |-> band,
                                                 mode |-> "approved"])],
              bands |-> u.bands,
              applied |-> prev.applied + Cardinality(params)]

approve_pending(l, b) ==
    IF l.pending_suggestions = << >>
    THEN [self |-> l, bands |-> b, applied |-> 0]
    ELSE LET queued == l.pending_suggestions
             a == approve_upto(l, b, queued, Len(by_band(queued)))
         IN  [a EXCEPT !.self.pending_suggestions = << >>]

\* reject_pending
reject_pending(l) ==
    [self |-> [l EXCEPT !.pending_suggestions = << >>],
     count |-> Len(l.pending_suggestions)]

\* process_analysis
process_analysis(l, b, analysis) ==
    IF analysis.suggestions = << >>
    THEN [self |-> l, bands |-> b,
          ret |-> [applied |-> 0, skipped |-> 0, pending |-> 0]]
    ELSE LET filtered == filter_suggestions(analysis.suggestions,
                                            analysis.band_metrics)
         IN  IF l.mode = "auto" THEN apply_suggestions(l, b, filtered)
             ELSE queue_suggestions(l, b, filtered)

\* process_all_analyses
process_all_analyses(l, b, analyses) ==
    IF Len(analyses) < MIN_FIRINGS_TO_LEARN
    THEN [self |-> l, bands |-> b,
          ret |-> [applied |-> 0, skipped |-> 0, pending |-> 0]]
    ELSE LET latest == analyses[Len(analyses)]
             confirmed_suggestions ==
                 confirm_recurring(latest.suggestions, analyses)
         IN  IF l.mode = "auto"
             THEN apply_suggestions(l, b, confirmed_suggestions)
             ELSE queue_suggestions(l, b, confirmed_suggestions)

\* the request threads of the learner's routes
LearnThreads == 1 .. MaxLearnThreads

NoLearnThread ==
    [pc |-> "idle", op |-> "none", queued |-> << >>, ret |-> 0]

\* the lists of logs analyze_all_logs finds
RECURSIVE LogLists(_)
LogLists(n) ==
    IF n = 0 THEN { << >> }
    ELSE LogLists(n - 1)
         \cup { Append(logs, log) :
                   logs \in { x \in LogLists(n - 1) : Len(x) = n - 1 },
                   log \in Logs }

\* what the learner's calls leave alone
nolearnervars ==
    << applied, kilnvars, valvevars, monitorvars, pidvars, tunervars,
       tracevars, managervars >>

\* the lists of logs the learner is given
AllLogLists == LogLists(MaxLogs)

\* the record of a call: its name, the mode, the table and the queue it
\* found, the logs analysed for it and what it returned
LearnCall(op, logs, ret) ==
    [op |-> op,
     calls |-> IF op \in {"process_analysis", "process_all_analyses"}
               THEN learn_call.calls + 1 ELSE learn_call.calls,
     mode |-> learner.mode, logs |-> logs, before |-> bands,
     queue |-> learner.pending_suggestions, ret |-> ret]

CallsLeft == learn_call.calls < MaxProcessCalls

\* POST /api/analysis/run
ProcessAnalysis ==
    /\ CallsLeft
    /\ \E log \in Logs :
          LET r == process_analysis(learner, bands, analyze_firing(log))
          IN  /\ learner' = r.self
              /\ bands' = r.bands
              /\ learn_call' = LearnCall("process_analysis", << log >>,
                                         r.ret)
    /\ UNCHANGED << nolearnervars, learn_threads >>

\* POST /api/learner/learn_all
ProcessAllAnalyses ==
    /\ CallsLeft
    /\ \E logs \in AllLogLists :
          LET r == process_all_analyses(learner, bands,
                                        analyze_all_logs(logs))
          IN  /\ learner' = r.self
              /\ bands' = r.bands
              /\ learn_call' = LearnCall("process_all_analyses", logs,
                                         r.ret)
    /\ UNCHANGED << nolearnervars, learn_threads >>

\* POST /api/learner/approve
ApprovePending ==
    /\ LET r == approve_pending(learner, bands)
       IN  /\ learner' = r.self
           /\ bands' = r.bands
           /\ learn_call' = LearnCall("approve_pending", << >>,
                                      [applied |-> r.applied, skipped |-> 0,
                                       pending |-> 0])
    /\ UNCHANGED << nolearnervars, learn_threads >>

\* POST /api/learner/reject
RejectPending ==
    /\ LET r == reject_pending(learner)
       IN  /\ learner' = r.self
           /\ learn_call' = LearnCall("reject_pending", << >>,
                                      [applied |-> 0, skipped |-> 0,
                                       pending |-> r.count])
    /\ UNCHANGED << bands, nolearnervars, learn_threads >>

\* POST /api/learner/mode
SetMode ==
    /\ \E mode \in {"suggest", "auto"} :
          /\ learner' = [learner EXCEPT !.mode = mode]
          /\ learn_call' = LearnCall("set_mode", << >>,
                                     [applied |-> 0, skipped |-> 0,
                                      pending |-> 0])
    /\ UNCHANGED << bands, nolearnervars, learn_threads >>

\* The learner's methods take no lock and Flask serves each request on a
\* thread of its own (app.run, threaded by default): a request thread is
\* followed from statement to statement of the method it has called.
\* A request: approve, reject, or the analysis of a log in suggest mode
LearnRequest(t) ==
    /\ learn_threads[t].pc = "idle"
    /\ \/ /\ \E op \in {"approve_pending", "reject_pending"} :
               /\ learn_threads' =
                     [learn_threads EXCEPT ![t] =
                        [NoLearnThread EXCEPT !.pc = "begin", !.op = op]]
               /\ learn_call' = LearnCall(op, << >>, learn_call.ret)
       \/ /\ CallsLeft
          /\ learner.mode = "suggest"
          /\ \E log \in Logs :
               LET analysis == analyze_firing(log)
               IN  /\ analysis.suggestions # << >>
                   /\ learn_threads' =
                         [learn_threads EXCEPT ![t] =
                            [pc |-> "begin", op |-> "process_analysis",
                             queued |-> filter_suggestions(
                                           analysis.suggestions,
                                           analysis.band_metrics),
                             ret |-> 0]]
                   /\ learn_call' = LearnCall("process_analysis", << log >>,
                                              learn_call.ret)
    /\ UNCHANGED << learner, bands, nolearnervars >>

\* approve_pending: the test of line 323, the grouping of the queue
\* (331-335), the updates of the bands (337-361), the clearing (363)
ApproveThread(t) ==
    LET me == learn_threads[t]
    IN  /\ me.op = "approve_pending"
        /\ \/ /\ me.pc = "begin"
              /\ learn_threads' =
                    [learn_threads EXCEPT ![t] =
                       IF learner.pending_suggestions = << >>
                       THEN [me EXCEPT !.pc = "idle", !.ret = 0]
                       ELSE [me EXCEPT !.pc = "group"]]
              /\ UNCHANGED << learner, bands >>
           \/ /\ me.pc = "group"
              /\ learn_threads' =
                    [learn_threads EXCEPT ![t] =
                       [me EXCEPT !.pc = "apply",
                                  !.queued = learner.pending_suggestions]]
              /\ UNCHANGED << learner, bands >>
           \/ /\ me.pc = "apply"
              /\ LET r == approve_upto(learner, bands, me.queued,
                                       Len(by_band(me.queued)))
                 IN  /\ learner' = r.self
                     /\ bands' = r.bands
                     /\ learn_threads' =
                           [learn_threads EXCEPT ![t] =
                              [me EXCEPT !.pc = "clear",
                                         !.ret = r.applied]]
           \/ /\ me.pc = "clear"
              /\ learner' = [learner EXCEPT !.pending_suggestions = << >>]
              /\ learn_threads' =
                    [learn_threads EXCEPT ![t] = [me EXCEPT !.pc = "idle"]]
              /\ UNCHANGED bands
        /\ UNCHANGED << learn_call, nolearnervars >>

\* reject_pending: the count of line 371, the clearing of line 372
RejectThread(t) ==
    LET me == learn_threads[t]
    IN  /\ me.op = "reject_pending"
        /\ \/ /\ me.pc = "begin"
              /\ learn_threads' =
                    [learn_threads EXCEPT ![t] =
                       [me EXCEPT !.pc = "clear",
                                  !.ret = Len(learner.pending_suggestions)]]
              /\ UNCHANGED learner
           \/ /\ me.pc = "clear"
              /\ learner' = [learner EXCEPT !.pending_suggestions = << >>]
              /\ learn_threads' =
                    [learn_threads EXCEPT ![t] = [me EXCEPT !.pc = "idle"]]
        /\ UNCHANGED << bands, learn_call, nolearnervars >>

\* process_analysis in suggest mode: _queue_suggestions empties the queue
\* (280) and appends the suggestions one by one (282-304)
ProcessThread(t) ==
    LET me == learn_threads[t]
    IN  /\ me.op = "process_analysis"
        /\ \/ /\ me.pc = "begin"
              /\ learner' = [learner EXCEPT !.pending_suggestions = << >>]
              /\ learn_threads' =
                    [learn_threads EXCEPT ![t] = [me EXCEPT !.pc = "append"]]
           \/ /\ me.pc = "append"
              /\ me.queued # << >>
              /\ learner' =
                    [learner EXCEPT !.pending_suggestions =
                       @ \o queue_suggestions(learner, bands,
                                              << Head(me.queued) >>)
                              .self.pending_suggestions]
              /\ learn_threads' =
                    [learn_threads EXCEPT ![t] =
                       [me EXCEPT !.queued = Tail(@), !.ret = @ + 1]]
           \/ /\ me.pc = "append"
              /\ me.queued = << >>
              /\ learn_threads' =
                    [learn_threads EXCEPT ![t] = [me EXCEPT !.pc = "idle"]]
              /\ UNCHANGED learner
        /\ UNCHANGED << bands, learn_call, nolearnervars >>


(* --------------- program_state, written key by key ------------------- *)
\* _update_program_state and _reset_program_state assign the keys of the
\* dict one after the other and hold no lock; the control loop calls them
\* on its thread, stop() and emergency_stop() on a request thread, and
\* get_status reads the dict on another.  Of the keys, the five of the
\* model are followed, in the order in which both methods assign them.
program_state_keys ==
    << "running", "current_ramp", "current_setpoint", "phase",
       "valve_output" >>

\* the dict before any program has run
IdleState ==
    [running |-> FALSE, phase |-> "idle", current_ramp |-> 0,
     current_setpoint |-> Deg(20), valve_output |-> 0]

Writers == {"loop", "request"}

NoSnapshot ==
    [writers |-> [w \in Writers |->
                    [busy |-> FALSE, done |-> 0, ps |-> IdleState]],
     written |-> {IdleState}, observed |-> IdleState, updates |-> 0]

\* the runner at the end of a control cycle
LoopRunners ==
    { [runner EXCEPT !.is_running = TRUE, !.phase = ph,
                     !.current_ramp_index = i, !.current_setpoint = sp,
                     !.last_valve_output = 50] :
         ph \in {"ramp", "hold"}, i \in {0, 1},
         sp \in {Deg(100), Deg(200)} }

nosnapvars ==
    << runner, threads, valve_pos, is_logging, temperature_data,
       temp_changes, monitor, env, safety, watchdog, heartbeat_age,
       sensor_age, bands, applied, valvevars, monitorvars, pidvars,
       tunervars, learnervars, trigger_call, managervars >>

\* a method is entered that will assign the keys of the state ps
begin_write(w, ps) ==
    [snapshot EXCEPT !.writers[w] = [busy |-> TRUE, done |-> 0, ps |-> ps],
                     !.written = @ \cup {ps},
                     !.updates = @ + 1]

\* _execute_cycle calls _update_program_state
SnapUpdate ==
    /\ ~ snapshot.writers["loop"].busy
    /\ snapshot.updates < MaxUpdates
    /\ \E rr \in LoopRunners :
          snapshot' =
             begin_write("loop",
                         update_program_state([Ctx EXCEPT !.r = rr]).ps)
    /\ UNCHANGED << program_state, nosnapvars >>

\* _complete_program on the loop's thread, stop() or emergency_stop() on a
\* request thread, call _reset_program_state
SnapReset(w) ==
    /\ ~ snapshot.writers[w].busy
    /\ snapshot.updates < MaxUpdates
    /\ snapshot' = begin_write(w, reset_program_state(Ctx).ps)
    /\ UNCHANGED << program_state, nosnapvars >>

\* the next assignment of the method
SnapWrite(w) ==
    LET me == snapshot.writers[w]
        key == program_state_keys[me.done + 1]
    IN  /\ me.busy
        /\ program_state' = [program_state EXCEPT ![key] = me.ps[key]]
        /\ snapshot' = [snapshot EXCEPT
                           !.writers[w].done = me.done + 1,
                           !.writers[w].busy =
                               me.done + 1 < Len(program_state_keys)]
        /\ UNCHANGED nosnapvars

\* get_status: jsonify reads the dict
SnapRead ==
    /\ snapshot' = [snapshot EXCEPT !.observed = program_state]
    /\ UNCHANGED << program_state, nosnapvars >>

(* ------------- _trigger_emergency, statement by statement ------------- *)
\* One call of _trigger_emergency by the watchdog's loop: the fields,
\* the solenoid (when one is installed), the actuators, the notification.
\* acts lists what the call has attempted so far; the clock is in seconds
\* and starts late enough for the first alert to be due, as time.time()
\* does against _last_notification_time = 0.
notification_cooldown == 60

StartClock == 90

NoTrigger ==
    [pc |-> "idle", enabled |-> FALSE, acts |-> << >>,
     solenoid_raised |-> FALSE, now |-> StartClock,
     last_notification_time |-> 0]

\* line 271 with >= in the place of >
cooldown_over_at_limit(now, last_notification_time) ==
    now - last_notification_time >= notification_cooldown

\* line 271
cooldown_over(now, last_notification_time) ==
    now - last_notification_time > notification_cooldown

notriggervars ==
    << runner, threads, program_state, is_logging, temperature_data,
       temp_changes, monitor, env, safety, heartbeat_age, sensor_age,
       bands, applied, valvevars, monitorvars, pidvars, tunervars,
       learnervars, snapshot, managervars >>

\* time passes
ClockTick ==
    /\ trigger_call.now + TimeStep <= MaxClock
    /\ trigger_call' = [trigger_call EXCEPT !.now = @ + TimeStep]
    /\ UNCHANGED << watchdog, valve_pos, notriggervars >>

\* lines 248-255: a check of the loop has failed; the solenoid is
\* installed or is not
TriggerBegin ==
    /\ trigger_call.pc = "idle"
    /\ watchdog.trigger_count < MaxTriggers
    /\ \E reason \in {"heartbeat", "sensor", "over_temp"},
          enabled \in BOOLEAN :
          /\ watchdog' = trigger_emergency(watchdog, reason)
          /\ trigger_call' = [trigger_call EXCEPT
                                 !.pc = "solenoid", !.enabled = enabled,
                                 !.acts = << >>, !.solenoid_raised = FALSE]
    /\ UNCHANGED << valve_pos, notriggervars >>

\* lines 257-261: solenoid.close(), which may raise
TriggerSolenoid ==
    /\ trigger_call.pc = "solenoid"
    /\ \/ /\ trigger_call.enabled
          /\ \E raised \in BOOLEAN :
                trigger_call' = [trigger_call EXCEPT
                                    !.pc = "actuator",
                                    !.acts = Append(@, "solenoid"),
                                    !.solenoid_raised = raised]
       \/ /\ ~ trigger_call.enabled
          /\ trigger_call' = [trigger_call EXCEPT !.pc = "actuator"]
    /\ UNCHANGED << watchdog, valve_pos, notriggervars >>

\* lines 264-267: actuators.emergency_stop(), which may raise
TriggerActuator ==
    /\ trigger_call.pc = "actuator"
    /\ trigger_call' = [trigger_call EXCEPT
                           !.pc = "notify", !.acts = Append(@, "actuator")]
    /\ \/ valve_pos' = emergency_close(valve_pos)
       \/ UNCHANGED valve_pos
    /\ UNCHANGED << watchdog, notriggervars >>

\* lines 270-284: the notification, which may raise
TriggerNotify ==
    /\ trigger_call.pc = "notify"
    /\ IF cooldown_over(trigger_call.now,
                        trigger_call.last_notification_time)
       THEN \/ trigger_call' =
                 [trigger_call EXCEPT
                     !.pc = "idle", !.acts = Append(@, "alert"),
                     !.last_notification_time = trigger_call.now]
            \/ trigger_call' = [trigger_call EXCEPT !.pc = "idle"]
       ELSE trigger_call' = [trigger_call EXCEPT !.pc = "idle"]
    /\ UNCHANGED << watchdog, valve_pos, notriggervars >>

(* ------------------------- AdaptivePIDManager ------------------------- *)
\* The manager between the adaptive table and the PID controller.
\* Temperatures are whole degrees, as the table's bands.
update_threshold == 10

\* AdaptivePIDManager.__init__
AdaptivePIDManager_init ==
    [enabled |-> TRUE, current_band |-> None, last_update_temp |-> None,
     last_params |-> NoParams]

\* update_tunings, lines 362-368: the call returns before the update
update_skipped(m, current_temp) ==
    \/ ~ m.enabled
    \/ /\ m.last_update_temp # None
       /\ Abs(current_temp - m.last_update_temp) < update_threshold

\* update_tunings, lines 378-383: the highest band not above the reading
band_of(b, current_temp, old) ==
    LET below == { k \in BandKeys(b) : current_temp >= k }
    IN  IF below = {} THEN old
        ELSE CHOOSE k \in below : \A j \in below : j <= k

\* AdaptivePIDManager.update_tunings: the manager and the controller
update_tunings(m, p, b, current_temp) ==
    IF update_skipped(m, current_temp) THEN [self |-> m, pid |-> p]
    ELSE LET params == get_params_for_temp(b, current_temp)
         IN  [self |-> [m EXCEPT
                          !.last_update_temp = current_temp,
                          !.last_params = params,
                          !.current_band =
                              band_of(b, current_temp, m.current_band)],
              pid |-> set_tunings(p, params.Kp, params.Ki, params.Kd)]

\* readings 5, 10 and 15 degrees apart between the bands of 0 and 200,
\* and one in the next band
ManagerTemps == {100, 105, 110, 115, 300}

\* gains the learner gives to the band of 200
ManagerGains == {25000, 30000}

nomanagervars ==
    << kilnvars, applied, valvevars, monitorvars, pid_call, tunervars,
       learnervars, tracevars, run_loops >>

\* the main loop's call, with the reading of the cycle
UpdateTunings ==
    /\ \E current_temp \in ManagerTemps :
          LET r == update_tunings(adaptive_manager, pid, bands,
                                  current_temp)
          IN  /\ adaptive_manager' = r.self
              /\ pid' = r.pid
              /\ manager_call' = [op |-> "update_tunings",
                                  temp |-> current_temp]
    /\ UNCHANGED << nomanagervars, bands >>

\* AdaptivePIDManager.enable
ManagerEnable ==
    /\ adaptive_manager' = [adaptive_manager EXCEPT !.enabled = TRUE]
    /\ manager_call' = [op |-> "enable", temp |-> 0]
    /\ UNCHANGED << nomanagervars, bands, pid >>

\* AdaptivePIDManager.disable
ManagerDisable ==
    /\ adaptive_manager' = [adaptive_manager EXCEPT !.enabled = FALSE]
    /\ pid' = set_tunings(pid, PID_KP, PID_KI, PID_KD)
    /\ manager_call' = [op |-> "disable", temp |-> 0]
    /\ UNCHANGED << nomanagervars, bands >>

\* the learner writes new gains in the manager's table
ManagerTableUpdate ==
    /\ \E kp \in ManagerGains :
          bands' = update_band(bands, 200, kp, PID_KI, PID_KD).bands
    /\ manager_call' = [op |-> "update_band", temp |-> 0]
    /\ UNCHANGED << nomanagervars, adaptive_manager, pid >>

(* ----------------------- the runner's loop threads -------------------- *)
\* ProgramRunner's start, stop, emergency_stop and _run_loop with all
\* that a cycle computes left out: is_running, the stop event, the phase
\* and where each thread started by start() stands.  A thread is at the
\* loop's test ("check"), inside _cycle ("cycle"), in the wait on the
\* event ("wait") or not alive ("none").
LoopThreads == 1 .. MaxLoops

noloopvars ==
    << kilnvars, tablevars, valvevars, monitorvars, pidvars, tunervars,
       learnervars, tracevars, adaptive_manager, manager_call >>

\* ProgramRunner.start with a program that has ramps
LoopsStart ==
    /\ ~ run_loops.is_running
    /\ \E t \in LoopThreads :
          /\ run_loops.pc[t] = "none"
          /\ \A u \in LoopThreads : run_loops.pc[u] = "none" => t <= u
          /\ run_loops' = [run_loops EXCEPT !.stop_event = FALSE,
                                            !.is_running = TRUE,
                                            !.phase = "ramp",
                                            !.pc[t] = "check"]
    /\ UNCHANGED noloopvars

\* ProgramRunner.stop
LoopsStop ==
    /\ run_loops.is_running
    /\ run_loops' = [run_loops EXCEPT !.stop_event = TRUE,
                                      !.is_running = FALSE,
                                      !.phase = "stopped"]
    /\ UNCHANGED noloopvars

\* ProgramRunner.emergency_stop
LoopsEmergencyStop ==
    /\ run_loops' = [run_loops EXCEPT !.stop_event = TRUE,
                                      !.is_running = FALSE,
                                      !.phase = "stopped"]
    /\ UNCHANGED noloopvars

\* _run_loop: while not self._stop_event.is_set()
LoopsTest(t) ==
    /\ run_loops.pc[t] = "check"
    /\ run_loops' = [run_loops EXCEPT
                        !.pc[t] = IF run_loops.stop_event THEN "none"
                                  ELSE "cycle"]
    /\ UNCHANGED noloopvars

\* _cycle returns; the cycle that ends the last ramp has called
\* _complete_program
LoopsCycle(t) ==
    /\ run_loops.pc[t] = "cycle"
    /\ \E completes \in BOOLEAN :
          run_loops' =
             IF completes
             THEN [run_loops EXCEPT !.phase = "complete",
                                    !.is_running = FALSE,
                                    !.stop_event = TRUE,
                                    !.pc[t] = "wait"]
             ELSE [run_loops EXCEPT !.pc[t] = "wait"]
    /\ UNCHANGED noloopvars

\* self._stop_event.wait(timeout=PID_CYCLE_INTERVAL) returns, the event
\* set or the time over
LoopsWait(t) ==
    /\ run_loops.pc[t] = "wait"
    /\ run_loops' = [run_loops EXCEPT !.pc[t] = "check"]
    /\ UNCHANGED noloopvars

(* ----------------------------- behaviours ----------------------------- *)
Init ==
    /\ runner = [is_running |-> FALSE, phase |-> "idle",
                 current_ramp_index |-> 0, ramps |-> << >>,
                 current_setpoint |-> Deg(20), ramp_start_temp |-> Deg(20),
                 hold_remaining |-> 0, hold_total |-> 0,
                 last_valve_output |-> 0, stop_event |-> FALSE,
                 temp_buffer |-> << >>]
    /\ threads = [t \in Threads |-> NoThread]
    /\ valve_pos = 0
    /\ program_state = [running |-> FALSE, phase |-> "idle",
                        current_ramp |-> 0, current_setpoint |-> Deg(20),
                        valve_output |-> 0]
    /\ is_logging = FALSE
    /\ temperature_data = [hot |-> 0, status |-> "connecting"]
    /\ temp_changes = 0
    /\ monitor = "off"
    /\ env = [hot |-> Deg(20), ok |-> TRUE]
    /\ safety = [emergency_stop_triggered |-> FALSE]
    /\ watchdog = [is_running |-> FALSE, triggered |-> FALSE,
                   trigger_reason |-> "none", trigger_count |-> 0,
                   last_temperature |-> 0]
    /\ heartbeat_age = 0
    /\ sensor_age = 0
    /\ bands = create_default_table
    /\ applied = [band |-> 0, proposed |-> NoParams, ret |-> NoParams]
    /\ valve_lock = "free"
    /\ set_call = [pc |-> "idle", percentage |-> 0]
    /\ wd_threads = [t \in WdThreads |-> NoWdThread]
    /\ safety_monitor = SafetyMonitor_init
    /\ safety_call = NoSafetyCall
    /\ pid = PIDController_init
    /\ pid_call = [op |-> "none", elapsed |-> 0]
    /\ autotuner = RelayAutotuner_init
    /\ autotune_loop = [pc |-> "idle", temp |-> 0, branch |-> "none",
                        ret |-> None, expired |-> FALSE]
    /\ learner = PIDLearner_init
    /\ learn_call = NoLearnCall
    /\ learn_threads = [t \in LearnThreads |-> NoLearnThread]
    /\ snapshot = NoSnapshot
    /\ trigger_call = NoTrigger
    /\ adaptive_manager = AdaptivePIDManager_init
    /\ manager_call = [op |-> "none", temp |-> 0]
    /\ run_loops = [is_running |-> FALSE, stop_event |-> FALSE,
                    phase |-> "idle",
                    pc |-> [t \in LoopThreads |-> "none"]]

ThreadStep(t) ==
    \/ RunLoopCheck(t)
    \/ CycleProcess(t)
    \/ CycleAdvance(t)
    \/ CycleCommand(t)
    \/ RunLoopWait(t)

\* the runner alone, given any readings
NextRunner ==
    \/ \E p \in Programs : Start(p)
    \/ Stop
    \/ EmergencyStop
    \/ \E t \in Threads : ThreadStep(t)
    \/ \E h \in Temps : PublishReading(h)
    \/ PublishError

SpecRunner == Init /\ [][NextRunner]_vars

\* the operator starts a program on the idle runner of a kiln that is not
\* known to be hot
FirstStart ==
    /\ runner.phase = "idle"
    /\ temperature_data.hot <= Deg(20)
    /\ \E p \in KilnPrograms : Start(p)

\* what the threads and the kiln do by themselves
AutoStep ==
    \/ \E t \in Threads : ThreadStep(t)
    \/ MonitorStart
    \/ SensorLoop
    \/ WatchdogPoll
    \/ Tick
    \/ EnvChange

\* the whole system with the operator's resets; stopping a program by
\* hand is part of NextRunner
Next ==
    \/ AutoStep
    \/ FirstStart
    \/ WdStart
    \/ WdStop
    \/ reset_safety
    \/ reset_watchdog

Spec == Init /\ [][Next]_vars

\* the system with no reset by the operator: every thread keeps being
\* scheduled and time keeps passing
NextLive ==
    \/ AutoStep
    \/ FirstStart
    \/ WdStart
    \/ WdStop

\* weak fairness of the steps of loop thread t, WF_vars(ThreadStep(t)),
\* written out: a live thread always has a step to take and that step
\* moves its position, so ENABLED <<ThreadStep(t)>>_vars is pc # "none"
ThreadFair(t) ==
    []<>(threads[t].pc = "none") \/ []<><<ThreadStep(t)>>_vars

Fairness ==
    /\ \A t \in Threads : ThreadFair(t)
    /\ WF_vars(SensorLoop)
    /\ WF_vars(WatchdogPoll)
    /\ WF_vars(Tick)

SpecLive == Init /\ [][NextLive]_vars /\ Fairness

\* the adaptive table under its operations, with any arguments
NextAdaptive ==
    \/ SetBaseFromAutotuning
    \/ UpdateBand
    \/ RollbackBand
    \/ RollbackAll

SpecAdaptive == Init /\ [][NextAdaptive]_vars

\* the watchdog's loop, the valve's lock and a control loop's valve calls
NextWatchdog ==
    \/ WatchdogStart
    \/ WatchdogStop
    \/ \E t \in WdThreads : WdThreadStep(t)
    \/ SetPositionCall
    \/ SetPositionAcquire
    \/ SetPositionDone
    \/ Feed
    \/ ReportSensorOk
    \/ Tick
    \/ reset_watchdog

SpecWatchdog == Init /\ [][NextWatchdog]_vars

\* the safety monitor under any sequence of its calls
NextSafety ==
    \/ CheckAll
    \/ CheckSensorHealth
    \/ ResetEmergency

SpecSafety == Init /\ [][NextSafety]_vars

\* the PID controller under any sequence of its calls
NextPid ==
    \/ Compute
    \/ SetTunings
    \/ Reset

SpecPid == Init /\ [][NextPid]_vars

\* the autotuner, the sensor loop driving it and the operator's requests
NextAutotuner ==
    \/ AutotuneStart
    \/ AutotuneStop
    \/ DurationExceeded
    \/ LoopTest
    \/ ComputeBegin
    \/ ComputeBody
    \/ LoopAfter

SpecAutotuner == Init /\ [][NextAutotuner]_vars

NextLearner ==
    \/ ProcessAnalysis
    \/ ProcessAllAnalyses
    \/ ApprovePending
    \/ RejectPending
    \/ SetMode

SpecLearner == Init /\ [][NextLearner]_vars

NextLearnThreads ==
    \E t \in LearnThreads :
       \/ LearnRequest(t)
       \/ ApproveThread(t)
       \/ RejectThread(t)
       \/ ProcessThread(t)

SpecLearnThreads == Init /\ [][NextLearnThreads]_vars

NextSnapshot ==
    \/ SnapUpdate
    \/ \E w \in Writers : SnapReset(w) \/ SnapWrite(w)
    \/ SnapRead

SpecSnapshot == Init /\ [][NextSnapshot]_vars

NextTrigger ==
    \/ ClockTick
    \/ TriggerBegin
    \/ TriggerSolenoid
    \/ TriggerActuator
    \/ TriggerNotify

SpecTrigger == Init /\ [][NextTrigger]_vars

NextManager ==
    \/ UpdateTunings
    \/ ManagerEnable
    \/ ManagerDisable
    \/ ManagerTableUpdate

SpecManager == Init /\ [][NextManager]_vars

NextLoops ==
    \/ LoopsStart
    \/ LoopsStop
    \/ LoopsEmergencyStop
    \/ \E t \in LoopThreads : LoopsTest(t)
    \/ \E t \in LoopThreads : LoopsCycle(t)
    \/ \E t \in LoopThreads : LoopsWait(t)

SpecLoops == Init /\ [][NextLoops]_vars

(* ----------------------------- properties ----------------------------- *)
Latched == watchdog.triggered \/ safety.emergency_stop_triggered

ProgramRunning == runner.is_running /\ runner.phase \in {"ramp", "hold"}

NoLoopThread == \A t \in Threads : threads[t].pc = "none"

\* the segment the runner is at
CurrentRamp == runner.ramps[runner.current_ramp_index + 1]

\* C1: while the watchdog latch or the SafetyMonitor emergency flag is set,
\* the valve is closed: no command has opened it since the flag was set.
C1_ValveClosedWhileLatched == Latched => valve_pos = 0

\* C2: once the watchdog has triggered, every step other than reset()
\* leaves it triggered, with the same trigger reason and trigger count.
C2_LatchSticky ==
    [][ (watchdog.triggered /\ ~ reset_watchdog)
          => /\ watchdog'.triggered
             /\ watchdog'.trigger_reason = watchdog.trigger_reason
             /\ watchdog'.trigger_count = watchdog.trigger_count ]_vars

\* C3: a program that is running when the emergency flag or the watchdog
\* latch is set is eventually taken out of the running state, with no
\* operator stopping it.
C3_ProgramPreempted == (Latched /\ ProgramRunning) ~> ~ ProgramRunning

\* C4: the sensor loop has stopped while the watchdog runs
SensorPathFailed == monitor = "dead" /\ watchdog.is_running

\* C4: the watchdog does not run while the sensor loop does, and the sensor
\* answers
WatchdogPathFailed ==
    ~ watchdog.is_running /\ monitor = "running" /\ env.ok

\* C4: when the kiln is above OVER_TEMP and stays there with exactly one
\* of the two shutdown paths failed, an emergency close follows: the valve
\* gets closed.
C4_DualShutdown ==
    /\ (env.hot > OVER_TEMP /\ SensorPathFailed)
          ~> (valve_pos = 0 \/ ~ (env.hot > OVER_TEMP /\ SensorPathFailed))
    /\ (env.hot > OVER_TEMP /\ WatchdogPathFailed)
          ~> (valve_pos = 0 \/ ~ (env.hot > OVER_TEMP /\ WatchdogPathFailed))

\* C5: while a program runs, with the valve where the previous cycle's
\* command left it, no step of a control cycle moves the valve by more than
\* VALVE_MAX_STEP_PER_CYCLE.
C5_ValveStepBounded ==
    [][ \A t \in Threads :
          (runner.is_running /\ valve_pos = runner.last_valve_output /\
           (CycleProcess(t) \/ CycleAdvance(t) \/ CycleCommand(t)))
            => Abs(valve_pos' - valve_pos) <= VALVE_MAX_STEP_PER_CYCLE ]_vars

\* C5, as the code has it: the command a cycle computes is within
\* VALVE_MAX_STEP_PER_CYCLE of the last command the runner has recorded,
\* and it is the command the cycle then delivers; that record is the
\* previous cycle's command unless completion or a stop has put it to 0.
C5_LimiterBounded ==
    [][ \A t \in Threads :
          /\ (threads'[t].pc = "command" /\ threads[t].pc # "command")
               => Abs(threads'[t].valve_output - runner'.last_valve_output)
                     <= VALVE_MAX_STEP_PER_CYCLE
          /\ CycleCommand(t)
               => /\ valve_pos' = threads[t].valve_output
                  /\ runner'.last_valve_output = threads[t].valve_output
        ]_vars

\* C5: a running program whose valve is closed and whose cycle is about to
\* command the largest step allowed, the PID having asked for more
C5_Witness ==
    /\ runner.is_running
    /\ runner.last_valve_output = 0
    /\ \E t \in Threads :
          /\ threads[t].pc = "command"
          /\ threads[t].valve_output = VALVE_MAX_STEP_PER_CYCLE
          /\ VALVE_MAX_STEP_PER_CYCLE \notin PidOutputs

\* C6: once stop() or emergency_stop() has halted the run and the loop
\* thread has ended, the last valve command the runner recorded is 0.
C6_StoppedMeansZero ==
    (runner.phase = "stopped" /\ ~ runner.is_running /\ NoLoopThread)
        => runner.last_valve_output = 0

\* C7: in every state with phase = complete the last valve command sent to
\* the actuator is 0.
C7_CompleteMeansClosed == runner.phase = "complete" => valve_pos = 0

\* C8: the phase changes only along the edges of the state machine (a new
\* start from complete or stopped counted as start), and while a program
\* runs the segment index stays or advances by one and is less than the
\* number of segments.
C8_PhaseEdges ==
    [][ /\ runner'.phase # runner.phase =>
             \/ runner'.phase = "stopped"
             \/ /\ runner.phase \in {"idle", "complete", "stopped"}
                /\ runner'.phase = "ramp"
                /\ runner'.current_ramp_index = 0
                /\ runner'.is_running
             \/ /\ runner.phase = "ramp"
                /\ runner'.phase = "hold"
                /\ runner'.current_ramp_index = runner.current_ramp_index
             \/ /\ runner.phase = "hold"
                /\ runner'.phase = "ramp"
                /\ runner'.current_ramp_index = runner.current_ramp_index + 1
             \/ /\ runner.phase \in {"ramp", "hold"}
                /\ runner'.phase = "complete"
                /\ runner.current_ramp_index = Len(runner.ramps) - 1
        /\ (runner.is_running /\ runner'.is_running) =>
             /\ runner'.current_ramp_index \in
                   {runner.current_ramp_index, runner.current_ramp_index + 1}
             /\ runner'.current_ramp_index < Len(runner'.ramps) ]_vars

C10_SetpointRamp ==
    /\ [](runner.phase \in {"ramp", "hold"} =>
            /\ Min(runner.ramp_start_temp, CurrentRamp.target)
                 <= runner.current_setpoint
            /\ runner.current_setpoint
                 <= Max(runner.ramp_start_temp, CurrentRamp.target))
    /\ [][ \A t \in Threads :
             (runner.phase = "ramp" /\ CycleProcess(t)
                /\ threads'[t].current_temp # None /\ CurrentRamp.rate > 0)
             => LET sp == runner.current_setpoint
                    target == CurrentRamp.target
                    moved == IF target > runner.ramp_start_temp
                             THEN runner'.current_setpoint - sp
                             ELSE sp - runner'.current_setpoint
                    step == Deg(CurrentRamp.rate * PID_CYCLE_INTERVAL)
                IN  \/ /\ 3600 * moved = step
                       /\ Abs(target - sp) >= moved
                    \/ /\ runner'.current_setpoint = target
                       /\ 3600 * Abs(target - sp) <= step ]_vars
    /\ [][ (runner'.phase = "ramp" /\
            (runner.phase # "ramp" \/
             runner'.current_ramp_index # runner.current_ramp_index))
           => runner'.current_setpoint = runner'.ramp_start_temp ]_vars

\* C10: target 200, rate 300, started at 20 C: 22.5 C after one cycle
C10_Witness ==
    /\ runner.ramps = << Seg(200, 300, 0) >>
    /\ runner.phase = "ramp"
    /\ runner.ramp_start_temp = Deg(20)
    /\ 2 * runner.current_setpoint = Deg(45)
    /\ \E t \in Threads : threads[t].pc = "command"

\* C11: a ramp cycle ends the ramp (it enters the hold, or the advance to the
\* next segment) exactly when the measured temperature has come within
\* RAMP_TOLERANCE of the target on the side the ramp approaches it from,
\* whatever the setpoint is.
C11_RampEndsOnMeasured ==
    [][ \A t \in Threads :
          (runner.phase = "ramp" /\ CycleProcess(t)
             /\ threads'[t].current_temp # None)
          => LET measured == threads'[t].current_temp
                 target == CurrentRamp.target
                 reached == IF target > runner.ramp_start_temp
                            THEN measured >= target - RAMP_TOLERANCE
                            ELSE measured <= target + RAMP_TOLERANCE
                 ended == \/ runner'.phase = "hold"
                          \/ threads'[t].pc = "advance"
             IN  ended <=> reached ]_vars

\* C11: a heating ramp whose setpoint has reached the target while the
\* measure of the cycle just run is still short of it: the ramp goes on
C11_Witness ==
    /\ runner.phase = "ramp"
    /\ runner.is_running
    /\ CurrentRamp.target > runner.ramp_start_temp
    /\ runner.current_setpoint = CurrentRamp.target
    /\ \E t \in Threads :
          /\ threads[t].pc = "command"
          /\ threads[t].current_temp < CurrentRamp.target - RAMP_TOLERANCE

\* gains g within the absolute limits
WithinHard(g) ==
    \A param \in ParamNames :
        /\ SAFETY_LIMITS[param].min <= g[param]
        /\ g[param] <= SAFETY_LIMITS[param].max

\* gains g within +-50% of the gains base
WithinDeviation(g, base) ==
    \A param \in ParamNames :
        /\ 100 * g[param] >= (100 - MAX_DEVIATION_PERCENT) * base[param]
        /\ 100 * g[param] <= (100 + MAX_DEVIATION_PERCENT) * base[param]

\* C12: whatever operations the table has gone through, the current gains
\* of every band are within the absolute limits and within +-50% of the
\* band's base gains.
C12_GainsWithinLimits ==
    \A temp \in DOMAIN bands :
        /\ WithinHard(bands[temp].current)
        /\ WithinDeviation(bands[temp].current, bands[temp].base)

\* C13: the gains update_band applies and returns are within the absolute
\* limits and within +-50% of the band's base, whatever was proposed; a
\* proposal above 1.5 times a base whose 1.5-fold is below the absolute
\* maximum is applied as exactly 1.5 times the base.
C13_UpdateBandCapped ==
    [][ (UpdateBand /\ applied'.ret # NoParams)
          => LET base == bands[applied'.band].base
                 ret == applied'.ret
                 proposed == applied'.proposed
             IN  /\ bands'[applied'.band].current = ret
                 /\ WithinHard(ret)
                 /\ WithinDeviation(ret, base)
                 /\ \A param \in ParamNames :
                       (/\ (100 + MAX_DEVIATION_PERCENT) * base[param]
                              < 100 * SAFETY_LIMITS[param].max
                        /\ 100 * proposed[param]
                              > (100 + MAX_DEVIATION_PERCENT) * base[param])
                       => 100 * ret[param]
                            = (100 + MAX_DEVIATION_PERCENT) * base[param]
        ]_vars

\* temperatures the table is asked for: below it, on band edges, inside
\* bands, above it
QueryTemps == {0 - 50, 0, 100, 200, 300, 1100, 1200, 1300}

\* C14: on a band edge the table gives that band's current gains; between
\* two neighbouring edges, and up to the upper one, each gain lies on the
\* straight line through the two bands' current gains; at or below the
\* lowest edge and at or above the highest it gives the extreme band's
\* current gains.
C14_Interpolation ==
    \A T \in QueryTemps :
        LET g == get_params_for_temp(bands, T)
            keys == DOMAIN bands
        IN  /\ T \in keys => g = bands[T].current
            /\ (\A k \in keys : T <= k) =>
                  \A k \in keys : (\A j \in keys : k <= j)
                                     => g = bands[k].current
            /\ (\A k \in keys : T >= k) =>
                  \A k \in keys : (\A j \in keys : k >= j)
                                     => g = bands[k].current
            /\ \A lo, hi \in keys :
                  (/\ lo < hi
                   /\ \A j \in keys : ~ (lo < j /\ j < hi)
                   /\ lo <= T /\ T < hi)
                  => \A param \in ParamNames :
                        (hi - lo) * (g[param] - bands[lo].current[param])
                          = (T - lo) * (bands[hi].current[param]
                                          - bands[lo].current[param])

\* C14: the lowest, the second and the highest band have been given gains
\* that differ from their base and from one another
C14_Witness ==
    /\ bands[0].current # bands[0].base
    /\ bands[200].current # bands[0].current
    /\ bands[200].current # bands[400].current
    /\ bands[1200].current # bands[1200].base

\* one of the watchdog's three conditions holds
TriggerDue ==
    \/ heartbeat_age > WATCHDOG_THREAD_TIMEOUT
    \/ sensor_age > WATCHDOG_SENSOR_TIMEOUT
    \/ watchdog.last_temperature > OVER_TEMP

\* C15: the watchdog triggers only in a poll of the running, unlatched
\* watchdog in which the heartbeat age, the age of the last valid reading
\* or the last known temperature is over its limit; while one of them
\* stays over its limit the running watchdog does trigger; hence it
\* triggers when the sensor loop stops feeding it or the sensor stops
\* giving valid readings.
C15_WatchdogTriggers ==
    /\ [][ (~ watchdog.triggered /\ watchdog'.triggered)
             => (WatchdogPoll /\ watchdog.is_running /\ TriggerDue) ]_vars
    /\ (watchdog.is_running /\ ~ watchdog.triggered /\ TriggerDue)
          ~> (watchdog.triggered \/ ~ watchdog.is_running \/ ~ TriggerDue)
    /\ (watchdog.is_running /\ monitor # "running")
          ~> (watchdog.triggered \/ ~ watchdog.is_running
                \/ monitor = "running")
    /\ (watchdog.is_running /\ ~ env.ok)
          ~> (watchdog.triggered \/ ~ watchdog.is_running \/ env.ok)

\* C15: the watchdog has triggered on the age of the last valid reading
\* while the sensor loop was feeding it
C15_Witness ==
    /\ watchdog.triggered
    /\ watchdog.trigger_reason = "sensor"
    /\ monitor = "running"
    /\ heartbeat_age <= WATCHDOG_THREAD_TIMEOUT

\* C16: a loop thread of the watchdog ends only at its loop test, having
\* found is_running false: no exception of a check, of the actuator or of
\* the notification ends it; so while the watchdog is running a loop
\* thread is alive.
C16_LoopNeverEnds ==
    /\ [](watchdog.is_running
            => \E t \in WdThreads : wd_threads[t].pc # "none")
    /\ [][ \A t \in WdThreads :
             (wd_threads[t].pc # "none" /\ wd_threads'[t].pc = "none")
             => (wd_threads[t].pc = "test" /\ ~ watchdog.is_running) ]_vars

\* C16: the actuator has raised an exception in a trigger and the loop is
\* back at its loop test, the watchdog still running
C16_Witness ==
    /\ watchdog.is_running
    /\ watchdog.triggered
    /\ \E t \in WdThreads :
          /\ wd_threads[t].pc = "test"
          /\ wd_threads[t].caught = "actuator"

\* C17: the watchdog's emergency close never stands at the valve's lock
\* while a set_position call holds it.
C17_CloseNotBlocked ==
    ~ \E t \in WdThreads :
          /\ wd_threads[t].pc = "close"
          /\ valve_lock = "set_position"

\* does the alarm list hold an alarm of this level and code
HasAlarm(alarms, level, code) ==
    \E i \in 1..Len(alarms) :
        alarms[i].level = level /\ alarms[i].code = code

HasCode(alarms, code) ==
    \E i \in 1..Len(alarms) : alarms[i].code = code

C19_FlagSticky ==
    /\ [](safety_call.op = "check_all" /\ safety_call.was_triggered
              => /\ safety_call.result.emergency_stop
                 /\ safety_monitor.emergency_stop_triggered)
    /\ [][ (safety_monitor.emergency_stop_triggered
              /\ ~ safety_monitor'.emergency_stop_triggered)
           => safety_call'.op = "reset_emergency" ]_vars

\* with the flag set, check_all with 600 degrees has raised no
\* over-temperature alarm and returned emergency_stop
C19_Witness ==
    /\ safety_call.op = "check_all"
    /\ safety_call.was_triggered
    /\ safety_call.temp_hot = Deg(600)
    /\ safety_call.result.emergency_stop
    /\ ~ HasCode(safety_call.result.alarms, "OVER_TEMP")

\* C20: after any sequence of compute, set_tunings and reset calls, with
\* any errors and time steps, the output last returned is within 0..100
\* and the integral within PID_INTEGRAL_MIN..PID_INTEGRAL_MAX.
C20_OutputAndIntegralBounded ==
    /\ 0 <= pid.last_output
    /\ pid.last_output <= Percent(100)
    /\ 10 * PID_INTEGRAL_MIN <= pid.integral
    /\ pid.integral <= 10 * PID_INTEGRAL_MAX

\* a compute with no time elapsed, whose terms add up to more than 100,
\* has returned 100 with the integral held at its upper limit
C20_Witness ==
    /\ pid_call.op = "compute"
    /\ pid_call.elapsed <= 0
    /\ pid.last_p_term + pid.last_i_term + pid.last_d_term > Percent(100)
    /\ pid.last_output = Percent(100)
    /\ pid.integral = 10 * PID_INTEGRAL_MAX
    /\ pid.prev_error > 0

\* C21: the autotuner's phase changes only along these edges: to heating
\* (start), heating to relay, relay to complete, heating or relay to
\* error, and to idle (stop); nothing leaves complete or error but start
\* and stop.
C21_PhaseEdges ==
    [][ autotuner'.phase # autotuner.phase =>
           \/ autotuner'.phase = "heating"
           \/ autotuner'.phase = "idle"
           \/ autotuner.phase = "heating" /\ autotuner'.phase = "relay"
           \/ autotuner.phase = "heating" /\ autotuner'.phase = "error"
           \/ autotuner.phase = "relay"
              /\ autotuner'.phase \in {"complete", "error"} ]_vars

C23_GainsIffComplete ==
    /\ autotuner.phase = "complete"
       => /\ {"Ku", "Pu", "amplitude", "Kp", "Ki", "Kd"}
                 \subseteq autotuner.defined
          /\ get_results(autotuner) = "results"
    /\ autotuner.phase = "error"
       => /\ autotuner.defined \cap {"Kp", "Ki", "Kd"} = {}
          /\ get_results(autotuner) = "None"

\* the firings among the last five of a call's analyses that have a
\* suggestion with the key
FiringsWith(analyses, key) ==
    LET recent == LastN(analyses, RecentFirings)
    IN  { i \in DOMAIN recent :
             \E j \in DOMAIN recent[i].suggestions :
                Key(recent[i].suggestions[j]) = key }

\* the last call has enqueued the suggestion, or has written its value
Taken(sugg) ==
    LET old_val == learn_call.before[sugg.band].current[sugg.param]
        value == new_val(old_val, sugg.direction, sugg.magnitude)
    IN  IF learn_call.mode = "auto"
        THEN /\ bands[sugg.band].current[sugg.param] # old_val
             /\ bands[sugg.band].current[sugg.param]
                   = cap(sugg.param, value,
                         bands[sugg.band].base[sugg.param])
        ELSE \E i \in DOMAIN learner.pending_suggestions :
                LET queued == learner.pending_suggestions[i]
                IN  /\ queued.band = sugg.band
                    /\ queued.param = sugg.param
                    /\ queued.new_value = value

\* C24: process_all_analyses does nothing when it is given fewer than 2
\* analyses; otherwise a suggestion of the latest analysis is applied or
\* enqueued only if its (band, param, direction) occurs in at least 2
\* distinct firings among the last 5 analysed
C24_RecurringOnly ==
    learn_call.op = "process_all_analyses" =>
       LET analyses == analyze_all_logs(learn_call.logs)
           latest == analyses[Len(analyses)]
       IN  IF Len(analyses) < 2
           THEN /\ bands = learn_call.before
                /\ learner.pending_suggestions = learn_call.queue
                /\ learn_call.ret = [applied |-> 0, skipped |-> 0,
                                     pending |-> 0]
           ELSE \A j \in DOMAIN latest.suggestions :
                   Taken(latest.suggestions[j])
                   => Cardinality(FiringsWith(analyses,
                                              Key(latest.suggestions[j])))
                         >= 2

\* the batch the last process call has handed on to be applied or queued
Batch ==
    LET analyses == analyze_all_logs(learn_call.logs)
        latest == analyses[Len(analyses)]
    IN  IF learn_call.op = "process_analysis"
        THEN filter_suggestions(latest.suggestions, latest.band_metrics)
        ELSE IF Len(analyses) < MIN_FIRINGS_TO_LEARN THEN << >>
        ELSE confirm_recurring(latest.suggestions, analyses)

\* the table holds, for the parameter of the batch's entry i, the value
\* given, within the limits of update_band
Written(batch, i, value) ==
    LET band == batch[i].band
        param == batch[i].param
    IN  bands[band].current[param]
           = cap(param, value, learn_call.before[band].base[param])

\* the first entry of the batch for the band and parameter of entry i
FirstFor(batch, i) ==
    LET same == { j \in DOMAIN batch :
                     /\ batch[j].band = batch[i].band
                     /\ batch[j].param = batch[i].param }
    IN  CHOOSE j \in same : \A k \in same : j <= k

\* C25: when a batch holds several suggestions for one (band, param), the
\* value written to the table is the one derived from the first of them
\* in batch order, both when the batch is applied in auto mode and when it
\* was queued in suggest mode and is applied by approve_pending
C25_FirstWins ==
    /\ ( /\ learn_call.op \in {"process_analysis", "process_all_analyses"}
         /\ learn_call.mode = "auto" )
       => \A i \in DOMAIN Batch :
             LET first == Batch[FirstFor(Batch, i)]
                 old_val == learn_call.before[first.band].current[first.param]
             IN  Written(Batch, i,
                         new_val(old_val, first.direction, first.magnitude))
    /\ learn_call.op = "approve_pending"
       => \A i \in DOMAIN learn_call.queue :
             Written(learn_call.queue, i,
                     learn_call.queue[FirstFor(learn_call.queue, i)]
                        .new_value)

\* the bands an analysis rates good or excellent
GoodBands(analysis) ==
    { band \in DOMAIN analysis.band_metrics :
         analysis.band_metrics[band].quality \in SKIP_IF_QUALITY }

\* C26: in suggest mode process_analysis and process_all_analyses leave
\* every band's gains as they are, the table changing on approve_pending
\* only; in auto mode they write the adjustments at once and enqueue
\* nothing; process_analysis neither applies nor enqueues a suggestion for
\* a band rated good or excellent (a call that returns pending > 0 has
\* rebuilt the queue; one that returns 0 has left it as it was or empty)
C26_ModesAndQuality ==
    LET processing ==
            learn_call.op \in {"process_analysis", "process_all_analyses"}
    IN  /\ ( learn_call.mode = "suggest" /\ bands # learn_call.before )
           => learn_call.op = "approve_pending"
        /\ ( processing /\ learn_call.mode = "auto" )
           => /\ learner.pending_suggestions = learn_call.queue
              /\ learn_call.ret.pending = 0
              /\ \A i \in DOMAIN Batch :
                    LET first == Batch[FirstFor(Batch, i)]
                    IN  Written(Batch, i,
                           new_val(learn_call.before[first.band]
                                      .current[first.param],
                                   first.direction, first.magnitude))
        /\ learn_call.op = "process_analysis"
           => \A band \in GoodBands(analyze_firing(learn_call.logs[1])) :
                 /\ bands[band] = learn_call.before[band]
                 /\ learn_call.ret.pending > 0
                    => \A i \in DOMAIN learner.pending_suggestions :
                          learner.pending_suggestions[i].band # band

\* auto mode: a firing with a poor band 0 and a good band 200 that has a
\* suggestion of its own has been processed; band 0 has its new gains
C26_Witness ==
    /\ learn_call.op = "process_analysis"
    /\ learn_call.mode = "auto"
    /\ learn_call.logs = << "overshooting" >>
    /\ \E i \in DOMAIN analyze_firing("overshooting").suggestions :
          analyze_firing("overshooting").suggestions[i].band = 200
    /\ 200 \in GoodBands(analyze_firing("overshooting"))
    /\ bands[0].current.Kp = 22500
    /\ learn_call.ret.applied = 3

\* the entries of the learner's history for the approval of a band
Approvals(band) ==
    { i \in DOMAIN learner.history :
         /\ learner.history[i].band = band
         /\ learner.history[i].mode = "approved" }

\* a request thread returns from the method named
Returns(t, op) ==
    /\ learn_threads[t].op = op
    /\ learn_threads[t].pc # "idle"
    /\ learn_threads'[t].pc = "idle"

\* C27: approve_pending and reject_pending act atomically on the queue,
\* also with two such requests, or one and a process_analysis, on
\* different request threads: the queue is empty when either returns, a
\* queued suggestion is applied once and no more (a band is approved at
\* most once for every batch that was queued), reject_pending applies none
C27_PendingAtomic ==
    /\ [] ( \A band \in DOMAIN bands :
               Cardinality(Approvals(band)) <= learn_call.calls )
    /\ [][ \A t \in LearnThreads :
              /\ ( Returns(t, "approve_pending")
                   \/ Returns(t, "reject_pending") )
                 => learner'.pending_suggestions = << >>
              /\ ( /\ learn_threads[t].op = "reject_pending"
                   /\ learn_threads'[t] # learn_threads[t] )
                 => bands' = bands ]_vars

\* C28: a reader of program_state that runs beside the control loop,
\* stop() and the completion of the program sees no partly updated dict:
\* what it observes of running, phase, current_ramp, current_setpoint and
\* valve_output was written by one single update or reset
C28_SnapshotConsistent ==
    snapshot.observed \in snapshot.written

\* what a call of _trigger_emergency may have attempted, in its order
TriggerOrders ==
    { << >>, << "solenoid" >>, << "actuator" >>,
      << "solenoid", "actuator" >>, << "actuator", "alert" >>,
      << "solenoid", "actuator", "alert" >> }

\* the call is past its closures
ClosuresDone ==
    \/ trigger_call.pc = "notify"
    \/ trigger_call.pc = "idle" /\ watchdog.trigger_count > 0

\* C29: a trigger of the watchdog closes the solenoid, then commands the
\* actuators' emergency close, then sends at most one alert; the
\* actuators are commanded also when the closing of the solenoid has
\* raised, and on every trigger, whether the alert is sent or is held
\* back; an alert is sent only when more than the cooldown has passed
\* since the last alert that was sent
C29_TriggerOrder ==
    /\ [] ( trigger_call.acts \in TriggerOrders )
    /\ [] ( ClosuresDone
            => /\ \E i \in DOMAIN trigger_call.acts :
                     trigger_call.acts[i] = "actuator"
               /\ trigger_call.enabled
                  => trigger_call.acts[1] = "solenoid" )
    /\ [][ ( /\ trigger_call'.acts # trigger_call.acts
             /\ trigger_call'.acts # << >>
             /\ trigger_call'.acts[Len(trigger_call'.acts)] = "alert" )
           => /\ trigger_call.now - trigger_call.last_notification_time
                    > notification_cooldown
              /\ trigger_call'.last_notification_time = trigger_call.now
         ]_vars

\* the second trigger has ended: the closing of the solenoid raised, the
\* actuators were commanded, and the alert was held back by the cooldown,
\* 60 seconds after the alert of the first trigger
C29_Witness ==
    /\ trigger_call.pc = "idle"
    /\ watchdog.trigger_count = 2
    /\ trigger_call.enabled
    /\ trigger_call.solenoid_raised
    /\ trigger_call.acts = << "solenoid", "actuator" >>
    /\ trigger_call.last_notification_time > 0
    /\ trigger_call.now - trigger_call.last_notification_time
          = notification_cooldown

\* C30: a compute call with the measured value equal to the setpoint
\* leaves the integral as it was; when the call before it had a zero
\* error too, its proportional and derivative terms are 0 and its output
\* is Ki x integral, limited to 0..100
C30_ZeroError ==
    [][ ( pid_call'.op = "compute" /\ pid'.prev_error = 0 )
        => /\ pid'.integral = pid.integral
           /\ pid.prev_error = 0
              => /\ pid'.last_p_term = 0
                 /\ pid'.last_d_term = 0
                 /\ pid'.last_output
                       = Max(0, Min(Percent(100), pid'.ki * pid'.integral))
      ]_vars

\* the second of two calls with a zero error, after calls that have
\* filled the integral: the derivative gain is not 0 and the derivative
\* term is, and the output is the integral term, between 0 and 100
C30_Witness ==
    /\ pid_call.op = "compute"
    /\ pid.prev_error = 0
    /\ pid.kd > 0
    /\ pid.last_p_term = 0
    /\ pid.last_d_term = 0
    /\ pid.integral > 0
    /\ pid.last_output = pid.ki * pid.integral
    /\ pid.last_output > 0
    /\ pid.last_output < Percent(100)

\* the sensor loop's call runs the relay phase and leaves the autotuner
\* in it
RelayStep ==
    /\ autotune_loop.pc = "body"
    /\ autotune_loop'.pc = "after"
    /\ autotune_loop.branch = "relay"
    /\ autotuner.phase = "relay"
    /\ autotuner'.phase = "relay"

\* C31: while the autotuner stays in the relay phase the valve value it
\* returns is relay_high below setpoint - hysteresis, relay_low above
\* setpoint + hysteresis and, inside the band, the relay's previous
\* output, which is relay_low when the relay phase has just been entered
\* from the heating; the loop commands the valve with that value
C31_RelayOutput ==
    /\ [][ RelayStep
           => LET temp == autotune_loop.temp
                  previous == IF autotuner.relay_state
                              THEN autotuner.relay_high
                              ELSE autotuner.relay_low
              IN  /\ autotune_loop'.ret
                        \in {autotuner.relay_high, autotuner.relay_low}
                  /\ temp < autotuner.setpoint - autotuner.hysteresis
                     => autotune_loop'.ret = autotuner.relay_high
                  /\ temp > autotuner.setpoint + autotuner.hysteresis
                     => autotune_loop'.ret = autotuner.relay_low
                  /\ ( /\ temp >= autotuner.setpoint - autotuner.hysteresis
                       /\ temp <= autotuner.setpoint + autotuner.hysteresis )
                     => autotune_loop'.ret = previous
                  /\ autotuner'.relay_state
                        = (autotune_loop'.ret = autotuner.relay_high) ]_vars
    /\ [][ ( autotuner.phase = "heating" /\ autotuner'.phase = "relay" )
           => ~ autotuner'.relay_state ]_vars
    /\ [][ ( /\ autotune_loop.pc = "after"
             /\ autotune_loop'.pc # "after"
             /\ autotune_loop.ret # None )
           => valve_pos' = autotune_loop.ret ]_vars

\* a reading inside the band after one below it: the relay phase has
\* returned relay_high again
C31_Witness ==
    /\ autotune_loop.pc = "after"
    /\ autotune_loop.branch = "relay"
    /\ autotuner.phase = "relay"
    /\ autotune_loop.temp = autotuner.setpoint
    /\ autotuner.relay_state
    /\ autotune_loop.ret = autotuner.relay_high

\* the step records a crossing in the session's list
CrossingRecorded ==
    /\ autotuner'.crossings # autotuner.crossings
    /\ autotuner'.crossings # << >>

\* C32: the crossings recorded within one autotune session alternate in
\* direction, and a crossing is recorded only by a call whose reading
\* and the reading before it lie on the two sides of the setpoint: the
\* earlier one strictly below and this one at or above for "up", the
\* earlier one strictly above and this one at or below for "down"
C32_CrossingsAlternate ==
    /\ [] ( \A i \in 1..(Len(autotuner.crossings) - 1) :
               autotuner.crossings[i] # autotuner.crossings[i + 1] )
    /\ [][ CrossingRecorded
           => LET n == Len(autotuner.temp_buffer)
                  m == Len(autotuner'.crossings)
              IN  /\ autotune_loop.pc = "body"
                  /\ m = Len(autotuner.crossings) + 1
                  /\ SubSeq(autotuner'.crossings, 1, m - 1)
                        = autotuner.crossings
                  /\ n >= 2
                  /\ autotuner.temp_buffer[n] = autotune_loop.temp
                  /\ IF autotuner'.crossings[m] = "up"
                     THEN /\ autotuner.temp_buffer[n - 1] < autotuner.setpoint
                          /\ autotuner.setpoint <= autotune_loop.temp
                     ELSE /\ autotuner.temp_buffer[n - 1] > autotuner.setpoint
                          /\ autotuner.setpoint >= autotune_loop.temp ]_vars

\* a session with three recorded crossings, the last one by the reading
\* that rose from 480 to the setpoint
C32_Witness ==
    /\ autotuner.phase = "relay"
    /\ autotune_loop.pc = "after"
    /\ autotuner.crossings = << "up", "down", "up" >>
    /\ autotuner.temp_buffer = << Deg(510), Deg(480), Deg(500) >>

\* the three gains of the controller
Gains(p) == << p.kp, p.ki, p.kd >>

\* the reading is far enough from the one of the last update
BeyondThreshold(m, current_temp) ==
    \/ m.last_update_temp = None
    \/ Abs(current_temp - m.last_update_temp) > update_threshold

\* C33: update_tunings(T) changes the controller's gains only when the
\* manager has never updated or T is more than 10 degrees from the
\* temperature of the last update, and otherwise leaves the gains and
\* the remembered temperature as they are; after disable() the
\* controller has the configured gains and update_tunings changes
\* nothing
C33_UpdateThreshold ==
    /\ [][ manager_call'.op = "update_tunings"
           => /\ Gains(pid') # Gains(pid)
                 => BeyondThreshold(adaptive_manager, manager_call'.temp)
              /\ ~ BeyondThreshold(adaptive_manager, manager_call'.temp)
                 => /\ Gains(pid') = Gains(pid)
                    /\ adaptive_manager'.last_update_temp
                          = adaptive_manager.last_update_temp
              /\ ~ adaptive_manager.enabled
                 => /\ pid' = pid
                    /\ adaptive_manager' = adaptive_manager ]_vars
    /\ [][ manager_call'.op = "disable"
           => Gains(pid') = << PID_KP, PID_KI, PID_KD >> ]_vars
    /\ [] ( ~ adaptive_manager.enabled
            => Gains(pid) = << PID_KP, PID_KI, PID_KD >> )

\* thread t's cycle takes a valid reading and goes on to use it
CycleReads(t) ==
    /\ threads[t].pc = "cycle"
    /\ threads'[t].pc \in {"advance", "command"}

\* C34: the temperature a control cycle uses is the mean of the window
\* of the last TEMP_SMOOTHING_WINDOW raw readings, the cycle's own
\* reading having entered the window once and nothing else with it
C34_MeanOfRawReadings ==
    [][ \A t \in Threads :
          CycleReads(t)
          => /\ runner'.temp_buffer
                   = Push(runner.temp_buffer, temperature_data.hot)
             /\ threads'[t].current_temp = Mean(runner'.temp_buffer) ]_vars

\* the threads that are in the loop of _run_loop
LiveLoops == { t \in LoopThreads : run_loops.pc[t] # "none" }

\* C35: at most one control-loop thread of the runner executes cycles
\* at any time, whatever the order of start(), stop(), emergency_stop()
\* and the end of the program: two threads are never inside _cycle
\* together, and a thread started before the last start() executes no
\* cycle any more
C35_OneLoopThread ==
    /\ [] ( Cardinality({ t \in LoopThreads :
                             run_loops.pc[t] = "cycle" }) <= 1 )
    /\ [][ \A t \in LoopThreads :
             ( run_loops.pc[t] = "check" /\ run_loops'.pc[t] = "cycle" )
             => LiveLoops = {t} ]_vars

\* an iteration of the sensor loop takes its PID branch: it calls
\* pid.compute and commands the valve with the result
SensorLoopDrives == SensorLoop /\ program_state.running

\* a loop thread of the runner is alive: its cycles call pid.compute and
\* command the valve
RunnerLoops == { t \in Threads : threads[t].pc # "none" }

\* C36: while a program is running, one loop only calls pid.compute and
\* commands the valve: the sensor loop does not take its PID branch
\* while a control loop of the runner is alive
C36_OneController ==
    [][ SensorLoopDrives => RunnerLoops = {} ]_vars

\* the session has been stopped and the sensor loop is not inside an
\* iteration that began before the stop
StoppedSession ==
    /\ autotuner.phase = "idle"
    /\ ~ autotuner.is_running
    /\ autotune_loop.pc = "idle"

\* C37: once stop() has made the session idle the valve is at 0: the
\* aperture the autotuner commanded last in the heating or the relay
\* phase does not stay applied
C37_StopClosesValve == StoppedSession => valve_pos = 0

\* the list holds an alarm of level CRITICAL
HasCritical(alarms) ==
    \E i \in DOMAIN alarms : alarms[i].level = "CRITICAL"

\* C38: after a check_all, in the result it returned and in the monitor
\* itself, the emergency flag comes with is_safe false and a CRITICAL
\* alarm in the list of alarms
C38_EmergencyMeansUnsafe ==
    safety_call.op = "check_all"
    => /\ safety_call.result.emergency_stop
          => /\ ~ safety_call.result.is_safe
             /\ HasCritical(safety_call.result.alarms)
       /\ safety_monitor.emergency_stop_triggered
          => /\ ~ safety_monitor.is_safe
             /\ HasCritical(safety_monitor.alarms)

\* an iteration of the sensor loop ends whose call of
\* compute_valve_position found the session finished already
FinishedIterationEnds ==
    /\ autotune_loop.pc = "after"
    /\ autotune_loop'.pc = "idle"
    /\ autotune_loop.branch = "return"
    /\ autotune_loop.ret = 0
    /\ autotuner.phase \in {"complete", "error"}

\* C39: a session that has reached the phase complete or error has
\* is_running false at the latest when the next iteration of the sensor
\* loop has ended
C39_FinishedNotRunning ==
    [][ FinishedIterationEnds => ~ autotuner'.is_running ]_vars

\* the suggestions for one gain of one band all go the same way
OneDirection(suggestions) ==
    \A j, k \in DOMAIN suggestions :
        ( /\ suggestions[j].band = suggestions[k].band
          /\ suggestions[j].param = suggestions[k].param )
        => suggestions[j].direction = suggestions[k].direction

\* C40: the suggestions the analyzer emits for one firing never hold an
\* increase and a decrease of the same gain of the same band
C40_NoOppositeSuggestions ==
    \A i \in DOMAIN learn_call.logs :
        OneDirection(analyze_firing(learn_call.logs[i]).suggestions)

=============================================================================
